---------------------------- MODULE Spec2Model ----------------------------
(***************************************************************************)
(* The patrol simulation of src/src/hooks/useSimulation.ts as a state      *)
(* machine: the React state `state` (SimulationState), the refs            *)
(* targetPositionRef and lastTimeRef, and one action per exported control  *)
(* action plus the animation frame (animate -> updateSimulation).          *)
(*                                                                         *)
(* Numbers are fixed point:                                                *)
(*   positions, distances      1/1000 world unit                           *)
(*   wall clock                1 ms                                        *)
(*   simulated time (dt, elapsedTime, detectedAt, lastVisited)             *)
(*                             1/4000 s  (so dt = ms * speed-in-quarters)  *)
(*   battery                   1/400000 %  (so 0.01*dt is dt itself)       *)
(*   speed                     1/4        (the slider's step)              *)
(*   uncertainty, threat       1/1000                                      *)
(*   areaObserved, blindSpots  1/100 %                                     *)
(* Comparisons of distances are made on the squares, which is exact.       *)
(* Math.random() and Date.now() are nondeterministic choices from small    *)
(* sets of representative draws.                                           *)
(***************************************************************************)
EXTENDS Integers, Sequences, FiniteSets, TLC

VARIABLES
    state,              \* useState<SimulationState>              (l.201-216)
    targetPositionRef,  \* useRef<Position | null>, <<>> is null  (l.220)
    sinceLastTime,      \* performance.now() - lastTimeRef.current, ms,
                        \* saturating at IDLE_MS                  (l.219)
    lastTick,           \* history: kind of the last Running tick since the
                        \* target was last cleared by a handler, else the
                        \* handler that cleared it ("stopped", "reset",
                        \* "algorithm", "environment"), "none" initially
    noopTick,           \* history: the last step was a tick that found the
                        \* coordinator not Running
    extSeq,             \* history: number of external events delivered
    pending,            \* the updaters passed to setState and not yet applied
                        \* by a render, oldest first
    fuel,               \* exploration budget left: [frames, ops, events]
    alertState,         \* useState<AlertState> of useAlertSystem
                        \*                        (useAlertSystem.ts l.24-29)
    alertRefs,          \* its refs lastAlertTimeRef and alertTimeoutRef,
                        \* <<>> is null            (useAlertSystem.ts l.32-33)
    now,                \* Date.now(), ms
    cvState,            \* useState<CVDetectionState> of useCVDetection
                        \*                        (useCVDetection.ts l.27-35)
    cvRefs,             \* its refs modelRef, videoRef, animationRef and
                        \* detectionCallbackRef    (useCVDetection.ts l.37-41)
    detectCalls         \* the calls of detect() that are awaiting the model
                        \* or are requested as animation frames
                        \*                        (useCVDetection.ts l.127-166)

alertVars == <<alertState, alertRefs, now>>
cvVars == <<cvState, cvRefs, detectCalls>>
vars == <<state, targetPositionRef, sinceLastTime, lastTick, noopTick,
          extSeq, pending, fuel, alertVars, cvVars>>

---------------------------------------------------------------------------
(* Bounds of the exploration *)

\* animation frames explored in one behaviour
MaxFrames == 3
\* control actions explored in one behaviour
MaxOps == 3
\* external timeline events explored in one behaviour
MaxExternal == 1
MaxEvents == 52
TimelineFrames == 2
TimelineOps == 1
\* number of representative draws of the random generators
MaxDraw == 2
\* updaters that can wait for one render, and the frames and control actions
\* explored with waiting updaters
MaxPending == 2
QueuedFrames == 2
QueuedOps == 2
\* the field specification: frames of the patrol before, frames and control
\* actions after
PatrolFrames == 17
FieldFrames == 2
FieldOps == 1
\* the decision specification: frames after the arrival
DecisionFrames == 2
\* the run at any speed: frames before
SpeedRunFrames == 3
\* the sector sweep: battery drained on the way to each position of a tour
SweepLeg == 800000
\* the alert pipeline: steps of the clock, calls of toggleMute and
\* resetAlerts, and detections delivered
AlertClockSteps == 5
AlertOps == 1
AlertDetections == 4
\* the detection loop: animation frames requested, and calls of
\* startDetection, stopDetection and stopCamera
CVFrames == 3
CVOps == 4

(* Program constants *)

GRID_SIZE == 20
TIMELINE_CAP == 50
\* 0.5 world units: the arrival threshold of updateSimulation
ARRIVE == 500
\* 0.1 world units: below it the agent does not move
MOVE_EPS == 100
\* the clamp of deltaTime in animate, 0.1 s
MAX_DELTA_MS == 100
\* battery 100 %
FULL_BATTERY == 40000000
\* fovRange 4
FOV_RANGE == 4000
FOV_ANGLE == 60
\* field limit of the clamp, 9 world units
FIELD == 9000
\* the coverage window of updateSimulation, +-3 cells
WINDOW == 3
\* one second of simulated time
SECOND == 4000
\* a wall-clock wait while no frame is delivered, longer than MAX_DELTA_MS
IDLE_MS == 5000

Algorithms == {"RPA", "ZPA", "CPA", "TFA", "PDAP"}
Environments == {"open-grid", "urban-dense", "maze-facility", "dynamic-risk",
                 "changing-env", "fog-of-war"}
Heatmaps == {"coverage", "threat", "uncertainty", "none"}
Null == <<>>

---------------------------------------------------------------------------
(* Arithmetic helpers *)

Abs(n) == IF n < 0 THEN -n ELSE n
Max(a, b) == IF a >= b THEN a ELSE b
Min(a, b) == IF a <= b THEN a ELSE b

\* Division truncating toward zero, as the fixed-point image of a real quotient.
DivT(a, b) == IF (a >= 0) = (b > 0) THEN Abs(a) \div Abs(b)
              ELSE -(Abs(a) \div Abs(b))

\* Math.floor(a / b) for b > 0.
FloorDiv(a, b) == a \div b

RECURSIVE SqrtSearch(_, _, _)
SqrtSearch(n, lo, hi) ==
    IF lo >= hi THEN lo
    ELSE LET mid == (lo + hi + 1) \div 2
         IN IF mid * mid <= n THEN SqrtSearch(n, mid, hi)
            ELSE SqrtSearch(n, lo, mid - 1)

\* floor of the square root, 0 <= n < 2^31
ISqrt(n) == SqrtSearch(n, 0, 46340)

Sq(a) == a * a

\* Math.hypot(dx, dz)^2 and Math.hypot(dx, dz), in 1/1000
Hypot2(dx, dz) == Sq(dx) + Sq(dz)
Hypot(dx, dz) == ISqrt(Hypot2(dx, dz))

\* Math.max(-9, Math.min(9, v))
Clamp(v) == Max(-FIELD, Min(FIELD, v))

\* Math.floor(w + 10): world coordinate (1/1000) to grid index
GridIndex(w) == FloorDiv(w + 10000, 1000)

\* Number.toFixed(1): 1/1000 to tenths, half away from zero
ToFixed1(v) == IF v >= 0 THEN (v + 50) \div 100 ELSE -((-v + 50) \div 100)

RECURSIVE SumSeq(_)
SumSeq(s) == IF s = <<>> THEN 0 ELSE Head(s) + SumSeq(Tail(s))

\* a faulty slice that keeps the last n elements
SliceTail(s, n) ==
    IF Len(s) <= n THEN s ELSE SubSeq(s, Len(s) - n + 1, Len(s))

\* Array.prototype.slice(0, n)
Slice(s, n) == SubSeq(s, 1, Min(Len(s), n))

Cells == (0 .. GRID_SIZE - 1) \X (0 .. GRID_SIZE - 1)

---------------------------------------------------------------------------
(* World generation.  A draw d stands for one outcome of the Math.random() *)
(* calls of a generator; the structure (counts, kinds, ranges) is the      *)
(* code's, the detail is a fixed function of d.                            *)

Draws == 0 .. MaxDraw - 1

\* Math.random() * 0.3 of createGrid, in [0, 300)
ThreatDraw(d, x, y) == ((x * 3 + y * 11 + d) % 6) * 50
\* Math.random() * 0.5 of createGrid, in [0, 500)
UncertaintyDraw(d, x, y) == ((x * 7 + y * 13 + d * 5) % 10) * 50

\* the cell createGrid(fogOfWar) makes at c, under draw d
NewCell(fogOfWar, d, c) ==
    [x                |-> c[1],
     y                |-> c[2],
     visited          |-> FALSE,
     lastVisited      |-> 0,
     coverageValue    |-> 0,
     threatValue      |-> ThreatDraw(d, c[1], c[2]),
     uncertaintyValue |-> IF fogOfWar THEN 1000
                          ELSE UncertaintyDraw(d, c[1], c[2]),
     isVisible        |-> ~fogOfWar]

\* The grid is kept as the arguments of its generation and the cells written
\* since (marked); GridCell reads grid[x][y].
createGrid(fogOfWar, d) == [fogOfWar |-> fogOfWar, draw |-> d, marked |-> <<>>]

GridCell(grid, c) ==
    IF c \in DOMAIN grid.marked THEN grid.marked[c]
    ELSE NewCell(grid.fogOfWar, grid.draw, c)

\* Math.random() * span - span / 2 for obstacle i, on a 500 grid
SpreadDraw(d, i, k, span) == ((i * 3500 + k * 2500 + d * 1500 + 500) % span) - (span \div 2)

Obstacle(i, x, z, w, h, dp, type, visible) ==
    [id |-> i, position |-> [x |-> x, y |-> 0, z |-> z],
     size |-> [width |-> w, height |-> h, depth |-> dp],
     type |-> type, visible |-> visible]

wallPositions ==
    << [x |-> -6000, z |-> 0,     w |-> 300,  d |-> 8000],
       [x |-> -3000, z |-> -4000, w |-> 300,  d |-> 8000],
       [x |-> 0,     z |-> 2000,  w |-> 300,  d |-> 8000],
       [x |-> 3000,  z |-> -2000, w |-> 300,  d |-> 8000],
       [x |-> 6000,  z |-> 0,     w |-> 300,  d |-> 8000],
       [x |-> -4000, z |-> -6000, w |-> 8000, d |-> 300],
       [x |-> 2000,  z |-> -3000, w |-> 6000, d |-> 300],
       [x |-> -2000, z |-> 3000,  w |-> 8000, d |-> 300],
       [x |-> 4000,  z |-> 6000,  w |-> 6000, d |-> 300] >>

generateObstacles(env, d) ==
    CASE env = "open-grid" -> <<>>
      [] env = "urban-dense" ->
            [i \in 1 .. 15 |->
                Obstacle(i - 1, SpreadDraw(d, i, 0, 16000), SpreadDraw(d, i, 1, 16000),
                         800 + ((i * 300 + d * 100) % 1200),
                         1000 + ((i * 700 + d * 100) % 2000),
                         800 + ((i * 500 + d * 100) % 1200), "static", TRUE)]
      [] env = "maze-facility" ->
            [i \in 1 .. Len(wallPositions) |->
                Obstacle(i - 1, wallPositions[i].x, wallPositions[i].z,
                         wallPositions[i].w, 1500, wallPositions[i].d,
                         "static", TRUE)]
      [] env = "dynamic-risk" ->
            [i \in 1 .. 6 |->
                Obstacle(i - 1, SpreadDraw(d, i, 0, 14000), SpreadDraw(d, i, 1, 14000),
                         1000, 1000, 1000, "static", TRUE)]
      [] env = "changing-env" ->
            [i \in 1 .. 10 |->
                Obstacle(i - 1, SpreadDraw(d, i, 0, 16000), SpreadDraw(d, i, 1, 16000),
                         1000, 1500, 1000, "dynamic", (i + d) % 3 # 0)]
      [] env = "fog-of-war" ->
            [i \in 1 .. 8 |->
                Obstacle(i - 1, SpreadDraw(d, i, 0, 14000), SpreadDraw(d, i, 1, 14000),
                         1000, 1000, 1000, "static", TRUE)]

clusterCenters ==
    << [x |-> -5000, z |-> -5000], [x |-> 5000, z |-> -5000],
       [x |-> -5000, z |-> 5000],  [x |-> 5000, z |-> 5000] >>

\* Math.random() * 14 - 7 for intruder i (0-based), in [-7000, 7000)
IntruderX(d, i) == ((i * i * 3500 + i * 2000 + d * 4500 + 8000) % 14000) - 7000
IntruderZ(d, i) == ((i * 5500 + d * 2500 + 8000) % 14000) - 7000
\* (Math.random() - 0.5) * 3, in [-1500, 1500)
JitterX(d, i) == ((i * 700 + d * 900) % 3000) - 1500
JitterZ(d, i) == ((i * 1100 + d * 400 + 600) % 3000) - 1500
ThreatLevels == <<"low", "medium", "high">>

\* a faulty generator that makes 4 intruders for every preset
generateFourIntruders(env, d) ==
    [k \in 1 .. 4 |->
        [id          |-> k - 1,
         position    |-> [x |-> IntruderX(d, k - 1), y |-> 0, z |-> IntruderZ(d, k - 1)],
         detected    |-> FALSE,
         threatLevel |-> ThreatLevels[((k - 1 + d) % 3) + 1],
         detectedAt  |-> Null]]

generateIntruders(env, d) ==
    LET count == IF env = "dynamic-risk" THEN 8 ELSE 4
        center(i) == clusterCenters[((i \div 2) % 4) + 1]
        clustered(i) == env = "dynamic-risk" /\ i > 0
    IN [k \in 1 .. count |->
          LET i == k - 1
          IN [id          |-> i,
              position    |-> [x |-> IF clustered(i) THEN center(i).x + JitterX(d, i)
                                     ELSE IntruderX(d, i),
                               y |-> 0,
                               z |-> IF clustered(i) THEN center(i).z + JitterZ(d, i)
                                     ELSE IntruderZ(d, i)],
              detected    |-> FALSE,
              threatLevel |-> ThreatLevels[((i + d) % 3) + 1],
              detectedAt  |-> Null]]

initialDroneState ==
    [position |-> [x |-> 0, y |-> 2000, z |-> 0],
     rotation |-> <<0, 1>>,      \* the arguments (dz, dx) of Math.atan2; 0 rad
     fovAngle |-> FOV_ANGLE,
     fovRange |-> FOV_RANGE,
     battery  |-> FULL_BATTERY,
     speed    |-> 4,
     isMoving |-> FALSE]

initialMetrics ==
    [areaObserved     |-> 0,
     blindSpots       |-> 10000,
     detectionLatency |-> 0,
     battery          |-> FULL_BATTERY,
     intrudersDetected |-> 0,
     totalIntruders   |-> 0,
     patrolEfficiency |-> 0,
     avgResponseTime  |-> 0]

\* the argument of useState in useSimulation
InitialState(d) ==
    [isRunning          |-> FALSE,
     isPaused           |-> FALSE,
     speed              |-> 4,
     currentAlgorithm   |-> "PDAP",
     currentEnvironment |-> "open-grid",
     activeHeatmap      |-> "none",
     drone              |-> initialDroneState,
     obstacles          |-> <<>>,
     intruders          |-> generateIntruders("open-grid", d),
     grid               |-> createGrid(FALSE, d),
     metrics            |-> [initialMetrics EXCEPT !.totalIntruders = 4],
     decisionReasons    |-> <<>>,
     timeline           |-> <<>>,
     elapsedTime        |-> 0]

---------------------------------------------------------------------------
(* Decision engine: getNextPosition.  rnd indexes the outcome of the       *)
(* Math.random() / Date.now() reads of the strategy.                       *)

Reason(id, text, weight, icon, detail) ==
    [id |-> id, reason |-> text, weight |-> weight, icon |-> icon, detail |-> detail]

Decision(pos, x, z, reasons) ==
    [position |-> [x |-> x, y |-> pos.y, z |-> z], reasons |-> reasons]

\* (cos(angle) * distance, sin(angle) * distance) for angle in [0, 2 pi) and
\* distance in [1, 3): angle 0 at 1, angle 3 pi / 2 at 2, angle 3 pi / 4 at 2.83
RPAOffsets == << <<1000, 0>>, <<0, -2000>>, <<-2000, 2000>> >>

\* (cos t * r, sin t * r) with r = 3 + 5 sin(t / 2): t = 0; sin(t / 2) = -0.6
\* (r = 0); t = pi (r = 8)
SpiralPoints == << <<3000, 0>>, <<0, 0>>, <<-8000, 0>> >>

Choices == 1 .. Len(RPAOffsets)

RPADecision(drone, rnd) ==
    LET off == RPAOffsets[rnd]
    IN Decision(drone.position,
                Clamp(drone.position.x + off[1]),
                Clamp(drone.position.z + off[2]),
                << Reason(1, "Random direction selected", 100, "Shuffle", <<>>) >>)

\* a faulty zigzag that goes up the odd columns
ZPADecisionOddUp(drone) ==
    LET pos == drone.position
        gridX == FloorDiv(pos.x + 10000, 2000)
        direction == IF gridX % 2 = 0 THEN -1 ELSE 1
        advance == pos.z * direction >= 8000
        x1 == IF advance THEN pos.x + 2000 ELSE pos.x
        z1 == IF advance THEN pos.z ELSE pos.z + direction * 2000
        x2 == IF x1 > FIELD THEN -FIELD ELSE x1
    IN Decision(pos, x2, z1,
                << IF advance
                   THEN Reason(1, "Advancing to next row", 80, "ArrowRight", <<>>)
                   ELSE Reason(1, "Continuing zigzag pattern", 80, "TrendingUp", <<>>),
                   Reason(2, "Systematic coverage", 60, "Grid3x3", <<>>) >>)

\* a faulty zigzag that forgets to wrap at the last column
ZPADecisionWithoutWrap(drone) ==
    LET pos == drone.position
        gridX == FloorDiv(pos.x + 10000, 2000)
        direction == IF gridX % 2 = 0 THEN 1 ELSE -1
        advance == pos.z * direction >= 8000
        x1 == IF advance THEN pos.x + 2000 ELSE pos.x
        z1 == IF advance THEN pos.z ELSE pos.z + direction * 2000
    IN Decision(pos, x1, z1,
                << IF advance
                   THEN Reason(1, "Advancing to next row", 80, "ArrowRight", <<>>)
                   ELSE Reason(1, "Continuing zigzag pattern", 80, "TrendingUp", <<>>),
                   Reason(2, "Systematic coverage", 60, "Grid3x3", <<>>) >>)

ZPADecision(drone) ==
    LET pos == drone.position
        gridX == FloorDiv(pos.x + 10000, 2000)
        direction == IF gridX % 2 = 0 THEN 1 ELSE -1
        advance == pos.z * direction >= 8000
        x1 == IF advance THEN pos.x + 2000 ELSE pos.x
        z1 == IF advance THEN pos.z ELSE pos.z + direction * 2000
        x2 == IF x1 > FIELD THEN -FIELD ELSE x1
    IN Decision(pos, x2, z1,
                << IF advance
                   THEN Reason(1, "Advancing to next row", 80, "ArrowRight", <<>>)
                   ELSE Reason(1, "Continuing zigzag pattern", 80, "TrendingUp", <<>>),
                   Reason(2, "Systematic coverage", 60, "Grid3x3", <<>>) >>)

InGrid(gx, gz) == gx >= 0 /\ gx < GRID_SIZE /\ gz >= 0 /\ gz < GRID_SIZE

sectors ==
    << [id |-> 1, x |-> 5000,  z |-> 5000],
       [id |-> 2, x |-> -5000, z |-> 5000],
       [id |-> 3, x |-> -5000, z |-> -5000],
       [id |-> 4, x |-> 5000,  z |-> -5000] >>

\* a faulty score: the visited cells among the 9 sampled
SectorScoreOfVisited(grid, s) ==
    Cardinality({ o \in {-2000, 0, 2000} \X {-2000, 0, 2000} :
        /\ InGrid(GridIndex(s.x + o[1]), GridIndex(s.z + o[2]))
        /\ GridCell(grid, <<GridIndex(s.x + o[1]), GridIndex(s.z + o[2])>>).visited })

\* number of unvisited cells among the 9 sampled around the sector centre
SectorScore(grid, s) ==
    Cardinality({ o \in {-2000, 0, 2000} \X {-2000, 0, 2000} :
        /\ InGrid(GridIndex(s.x + o[1]), GridIndex(s.z + o[2]))
        /\ ~GridCell(grid, <<GridIndex(s.x + o[1]), GridIndex(s.z + o[2])>>).visited })

SectorScores(grid) == [i \in 1 .. Len(sectors) |-> SectorScore(grid, sectors[i])]

\* sectors.sort((a, b) => b.score - a.score)[0]: the sort is stable, so the
\* first sector of the highest score
FirstHighest(scores) ==
    CHOOSE i \in DOMAIN scores :
        /\ \A j \in DOMAIN scores : scores[j] <= scores[i]
        /\ \A j \in 1 .. i - 1 : scores[j] < scores[i]

CellDist2(c, pos) == Hypot2(c[1] * 1000 - 10000 - pos.x, c[2] * 1000 - 10000 - pos.z)

\* unvisited cells whose world position is within 8 of the sector centre
LocalUnvisited(grid, s, c) ==
    /\ ~GridCell(grid, c).visited
    /\ Abs((c[1] - 10) * 1000 - s.x) < 8000
    /\ Abs((c[2] - 10) * 1000 - s.z) < 8000

\* the position of cell c in grid.flat()
FlatIndex(c) == c[1] * GRID_SIZE + c[2]

\* localUnvisited.reduce(nearest) over grid.flat(): the first cell of the
\* least distance (d < bd is strict, so a later cell at the same distance
\* does not replace the best); <<>> when there is no local unvisited cell
NearestCell(grid, s, pos) ==
    LET local == { c \in Cells : LocalUnvisited(grid, s, c) }
    IN IF local = {} THEN <<>>
       ELSE CHOOSE c \in local :
                \A o \in local :
                    \/ CellDist2(c, pos) < CellDist2(o, pos)
                    \/ /\ CellDist2(c, pos) = CellDist2(o, pos)
                       /\ FlatIndex(c) <= FlatIndex(o)

VisitedCount(grid) == Cardinality({ c \in DOMAIN grid.marked : grid.marked[c].visited })

\* the branch taken inside the chosen sector (l.303-328)
CPASweep(pos, targetSector, anyUnvisited, target) ==
    IF anyUnvisited
    THEN IF target # <<>>
         THEN Decision(pos, (target[1] - 10) * 1000, (target[2] - 10) * 1000,
                  << Reason(1, "Sweeping Sector", 90, "Grid", <<targetSector.id>>) >>)
         ELSE Decision(pos, targetSector.x, targetSector.z,
                  << Reason(1, "Sector Finishing", 60, "Check", <<>>) >>)
    ELSE Decision(pos, pos.x, pos.z, <<>>)

CPAInSector(pos, grid, targetSector, score) ==
    IF score > 0
    THEN IF Hypot2(targetSector.x - pos.x, targetSector.z - pos.z) > Sq(5000)
         THEN Decision(pos, targetSector.x, targetSector.z,
                  << Reason(1, "Transit to Sector", 100, "ArrowRight",
                            <<targetSector.id>>) >>)
         ELSE CPASweep(pos, targetSector,
                       VisitedCount(grid) < GRID_SIZE * GRID_SIZE,
                       NearestCell(grid, targetSector, pos))
    ELSE Decision(pos, 0, 0,
             << Reason(1, "Mission Complete - RTB", 100, "Home", <<>>) >>)

CPAWithScores(pos, grid, scores) ==
    CPAInSector(pos, grid, sectors[FirstHighest(scores)], scores[FirstHighest(scores)])

CPADecision(drone, grid) ==
    CPAWithScores(drone.position, grid, SectorScores(grid))

DetectedIntruders(intruders) == SelectSeq(intruders, LAMBDA i : i.detected)

RECURSIVE SumX(_)
SumX(is) == IF is = <<>> THEN 0 ELSE Head(is).position.x + SumX(Tail(is))
RECURSIVE SumZ(_)
SumZ(is) == IF is = <<>> THEN 0 ELSE Head(is).position.z + SumZ(Tail(is))

\* cos and sin of Math.atan2(dz, dx), times len; atan2(0, 0) is 0
CosTimes(dx, dist, len) == IF dist = 0 THEN len ELSE DivT(dx * len, dist)
SinTimes(dz, dist, len) == IF dist = 0 THEN 0 ELSE DivT(dz * len, dist)

\* the pursuit step for the centroid (cx, cz) at offset (dx, dz), distance dist
TFAPursuit(pos, cx, cz, dx, dz, dist) ==
    IF Hypot2(dx, dz) > Sq(4000)
    THEN Decision(pos, pos.x + CosTimes(dx, dist, 3000), pos.z + SinTimes(dz, dist, 3000),
             << Reason(1, "Intercepting target(s)", 100, "Crosshair", <<>>),
                Reason(2, "Threat Centroid", 80, "MapPin", <<ToFixed1(cx), ToFixed1(cz)>>) >>)
    ELSE IF Hypot2(dx, dz) < Sq(2500)
    THEN Decision(pos, pos.x - CosTimes(dx, dist, 2000), pos.z - SinTimes(dz, dist, 2000),
             << Reason(1, "Maintaing tactical standoff", 90, "Shield", <<>>),
                Reason(2, "Threat Centroid", 80, "MapPin", <<ToFixed1(cx), ToFixed1(cz)>>) >>)
    \* cos(a + pi/2) = -sin a, sin(a + pi/2) = cos a
    ELSE Decision(pos, pos.x - SinTimes(dz, dist, 1000), pos.z + CosTimes(dx, dist, 1000),
             << Reason(1, "Tracking & Monitoring", 85, "Eye", <<>>),
                Reason(2, "Threat Centroid", 80, "MapPin", <<ToFixed1(cx), ToFixed1(cz)>>) >>)

TFACentroid(pos, cx, cz) ==
    TFAPursuit(pos, cx, cz, cx - pos.x, cz - pos.z, Hypot(cx - pos.x, cz - pos.z))

TFAWithDetected(pos, det, rnd) ==
    IF Len(det) > 0
    THEN TFACentroid(pos, DivT(SumX(det), Max(1, Len(det))),
                     DivT(SumZ(det), Max(1, Len(det))))
    ELSE Decision(pos, SpiralPoints[rnd][1], SpiralPoints[rnd][2],
             << Reason(1, "Scanning for hostiles (Spiral)", 50, "Search", <<>>),
                Reason(2, "Sector clear", 30, "CheckCircle", <<>>) >>)

TFADecision(drone, intruders, rnd) ==
    TFAWithDetected(drone.position, DetectedIntruders(intruders), rnd)

\* the 5 x 5 lattice of sector points, sx outer and sz inner
Lattice ==
    [k \in 1 .. 25 |->
        [x |-> -8000 + 4000 * ((k - 1) \div 5),
         z |-> -8000 + 4000 * ((k - 1) % 5),
         type |-> "sector", val |-> 0]]

ThreatCandidates(det) ==
    [i \in 1 .. Len(det) |->
        [x |-> det[i].position.x, z |-> det[i].position.z,
         type |-> "threat", val |-> 10]]

Candidates(intruders) == ThreatCandidates(DetectedIntruders(intruders)) \o Lattice

\* battery > 50 ? 20 : 10, and battery > 30 ? 0.05 : 0.2 (per 1/1000 unit of
\* distance, in 1/100000 of score)
MaxRange(drone) == IF drone.battery > 20000000 THEN 20000 ELSE 10000
MoveCostWeight(drone) == IF drone.battery > 12000000 THEN 5 ELSE 20

\* value + uncertainty * 2.0 * 10 + (unvisited ? 1.0 * 5 : 0), in 1/100000
CellGain(grid, gx, gz) ==
    IF InGrid(gx, gz)
    THEN GridCell(grid, <<gx, gz>>).uncertaintyValue * 2000
         + (IF ~GridCell(grid, <<gx, gz>>).visited THEN 500000 ELSE 0)
    ELSE 0

\* a faulty score that forgets the cost of the way
CandidateScoreWithoutCost(cand, drone, grid) ==
    cand.val * 100000 + CellGain(grid, GridIndex(cand.x), GridIndex(cand.z))

\* score of a candidate, in 1/100000
CandidateScore(cand, drone, grid) ==
    cand.val * 100000 + CellGain(grid, GridIndex(cand.x), GridIndex(cand.z))
    - Hypot(cand.x - drone.position.x, cand.z - drone.position.z)
        * MoveCostWeight(drone)

InRange(cand, drone) ==
    Hypot2(cand.x - drone.position.x, cand.z - drone.position.z)
        <= Sq(MaxRange(drone))

\* candidates.forEach from index k on: best is the index of the best candidate
\* so far (0 if none) and bestScore its score; score > bestScore is strict
RECURSIVE BestCandidate(_, _, _, _, _, _)
BestCandidate(cands, k, best, bestScore, drone, grid) ==
    IF k > Len(cands) THEN <<best, bestScore>>
    ELSE IF InRange(cands[k], drone)
            /\ (best = 0 \/ CandidateScore(cands[k], drone, grid) > bestScore)
         THEN BestCandidate(cands, k + 1, k, CandidateScore(cands[k], drone, grid),
                            drone, grid)
         ELSE BestCandidate(cands, k + 1, best, bestScore, drone, grid)

\* round a score in 1/100000 to tenths, as toFixed(1)
ScoreFixed1(v) == IF v >= 0 THEN (v + 5000) \div 10000 ELSE -((-v + 5000) \div 10000)

PDAPTarget(pos, cands, best) ==
    IF best[1] # 0
    THEN Decision(pos, cands[best[1]].x, cands[best[1]].z,
             << Reason(1, IF cands[best[1]].type = "threat"
                          THEN "Engaging identified threat"
                          ELSE "Exploring high-value sector", 95,
                       IF cands[best[1]].type = "threat" THEN "AlertTriangle"
                       ELSE "Compass", <<>>),
                Reason(2, "Utility Score", 60, "Activity", <<ScoreFixed1(best[2])>>) >>)
    ELSE Decision(pos, 0, 0, << Reason(1, "Returning to base", 50, "Home", <<>>) >>)

PDAPWithCandidates(drone, grid, cands) ==
    PDAPTarget(drone.position, cands, BestCandidate(cands, 1, 0, 0, drone, grid))

PDAPDecision(drone, grid, intruders) ==
    PDAPWithCandidates(drone, grid, Candidates(intruders))

Strategy(algorithm, drone, grid, intruders, rnd) ==
    CASE algorithm = "RPA" -> RPADecision(drone, rnd)
      [] algorithm = "ZPA" -> ZPADecision(drone)
      [] algorithm = "CPA" -> CPADecision(drone, grid)
      [] algorithm = "TFA" -> TFADecision(drone, intruders, rnd)
      [] algorithm = "PDAP" -> PDAPDecision(drone, grid, intruders)

\* a faulty ending that forgets the clamp
SliceDecision(d) ==
    [position |-> d.position, reasons |-> Slice(d.reasons, 3)]

\* the clamp and the slice that end getNextPosition (l.472-476)
ClampDecision(d) ==
    [position |-> [d.position EXCEPT !.x = Clamp(d.position.x),
                                     !.z = Clamp(d.position.z)],
     reasons  |-> Slice(d.reasons, 3)]

getNextPosition(algorithm, drone, grid, intruders, rnd) ==
    ClampDecision(Strategy(algorithm, drone, grid, intruders, rnd))

---------------------------------------------------------------------------
(* updateSimulation: the state updater of one tick.                        *)

Running(st) == st.isRunning /\ ~st.isPaused

\* the condition of the decision branch
NeedsTarget(prev, target) ==
    \/ target = Null
    \/ Hypot2(prev.drone.position.x - target.x, prev.drone.position.z - target.z)
         < Sq(ARRIVE)

\* smallest integer not below the square root
CeilSqrt(n) == IF Sq(ISqrt(n)) = n THEN ISqrt(n) ELSE ISqrt(n) + 1

\* (dx / distance) * Math.min(moveSpeed, distance), 0 when distance <= 0.1
MoveComponent(dx, dist2, moveSpeed) ==
    IF dist2 > Sq(MOVE_EPS)
    THEN IF moveSpeed >= CeilSqrt(dist2) THEN dx
         ELSE DivT(dx * moveSpeed, ISqrt(dist2))
    ELSE 0

\* newDrone for the offset (dx, dz) to the target; moveSpeed = 2 * dt
MoveBy(drone, dx, dz, dt) ==
    [drone EXCEPT
       !.position = [x |-> drone.position.x
                             + MoveComponent(dx, Hypot2(dx, dz), DivT(dt, 2)),
                     y |-> drone.position.y,
                     z |-> drone.position.z
                             + MoveComponent(dz, Hypot2(dx, dz), DivT(dt, 2))],
       !.rotation = <<dz, dx>>,
       !.battery  = Max(0, drone.battery - dt),
       !.isMoving = Hypot2(dx, dz) > Sq(MOVE_EPS)]

MoveDrone(drone, target, dt) ==
    MoveBy(drone, target.x - drone.position.x, target.z - drone.position.z, dt)

\* a faulty scan of every cell of the grid within fovRange
FovCellsOfWholeRange(gx, gz, fovRange) ==
    { c \in Cells : (Sq(c[1] - gx) + Sq(c[2] - gz)) * 1000000 <= Sq(fovRange) }

\* the cells of the +-3 window around cell (gx, gz) that are in the grid and
\* within fovRange of it
FovCells(gx, gz, fovRange) ==
    { c \in (gx - WINDOW .. gx + WINDOW) \X (gz - WINDOW .. gz + WINDOW) :
        /\ InGrid(c[1], c[2])
        /\ (Sq(c[1] - gx) + Sq(c[2] - gz)) * 1000000 <= Sq(fovRange) }

\* a faulty marking that leaves the cell's visibility as it was
MarkCellUnseen(cell, newElapsed) ==
    [cell EXCEPT !.visited = TRUE,
                 !.lastVisited = newElapsed,
                 !.coverageValue = 1,
                 !.uncertaintyValue = Max(0, cell.uncertaintyValue - 100)]

\* what the loop writes to a cell in sight (l.543-547)
MarkCell(cell, newElapsed) ==
    [cell EXCEPT !.visited = TRUE,
                 !.lastVisited = newElapsed,
                 !.coverageValue = 1,
                 !.uncertaintyValue = Max(0, cell.uncertaintyValue - 100),
                 !.isVisible = TRUE]

\* a faulty newGrid that starts from a fresh grid instead of a copy
MarkFreshCells(grid, fov, newElapsed) ==
    [grid EXCEPT !.marked =
       [c \in fov |-> MarkCell(NewCell(grid.fogOfWar, grid.draw, c), newElapsed)]]

\* newGrid: every cell copied, those of fov marked
MarkCells(grid, fov, newElapsed) ==
    [grid EXCEPT !.marked =
       [c \in (DOMAIN grid.marked) \cup fov |->
           IF c \in fov THEN MarkCell(GridCell(grid, c), newElapsed)
           ELSE grid.marked[c]]]

UpdateCoverage(grid, drone, newElapsed) ==
    MarkCells(grid,
              FovCells(GridIndex(drone.position.x), GridIndex(drone.position.z),
                       drone.fovRange),
              newElapsed)

\* a faulty test that forgets the detected flag
DetectsAgain(intruder, drone) ==
    Hypot2(intruder.position.x - drone.position.x,
           intruder.position.z - drone.position.z) <= Sq(drone.fovRange)

Detects(intruder, drone) ==
    /\ Hypot2(intruder.position.x - drone.position.x,
              intruder.position.z - drone.position.z) <= Sq(drone.fovRange)
    /\ ~intruder.detected

DetectIntruders(intruders, drone, newElapsed) ==
    [i \in 1 .. Len(intruders) |->
        IF Detects(intruders[i], drone)
        THEN [intruders[i] EXCEPT !.detected = TRUE, !.detectedAt = <<newElapsed>>]
        ELSE intruders[i]]

Severity(level) ==
    IF level = "high" THEN "danger" ELSE IF level = "medium" THEN "warning" ELSE "info"

DetectionEvent(intruder, newElapsed) ==
    [id        |-> <<"detection", intruder.id, newElapsed>>,
     timestamp |-> newElapsed,
     type      |-> "detection",
     message   |-> <<"Intruder detected at", ToFixed1(intruder.position.x),
                     ToFixed1(intruder.position.z)>>,
     severity  |-> Severity(intruder.threatLevel)]

\* a faulty loop that reports every detected intruder, new or not
RECURSIVE UnshiftDetected(_, _, _, _, _)
UnshiftDetected(timeline, old, new, k, newElapsed) ==
    IF k > Len(new) THEN timeline
    ELSE UnshiftDetected(
            IF new[k].detected
            THEN <<DetectionEvent(new[k], newElapsed)>> \o timeline
            ELSE timeline,
            old, new, k + 1, newElapsed)

\* newIntruders.forEach(... newTimeline.unshift(event)) from index k on
RECURSIVE UnshiftDetections(_, _, _, _, _)
UnshiftDetections(timeline, old, new, k, newElapsed) ==
    IF k > Len(new) THEN timeline
    ELSE UnshiftDetections(
            IF new[k].detected /\ ~old[k].detected
            THEN <<DetectionEvent(new[k], newElapsed)>> \o timeline
            ELSE timeline,
            old, new, k + 1, newElapsed)

\* truthiness of intruder.detectedAt: neither undefined nor 0
Truthy(detectedAt) == detectedAt # Null /\ detectedAt[1] # 0

RECURSIVE SumDetectedAt(_)
SumDetectedAt(is) ==
    IF is = <<>> THEN 0
    ELSE (IF Head(is).detected /\ Truthy(Head(is).detectedAt)
          THEN Head(is).detectedAt[1] ELSE 0) + SumDetectedAt(Tail(is))

DetectedCount(intruders) == Len(DetectedIntruders(intruders))

\* faulty metrics that publish the new latency as the response time
MetricsWithNewLatency(prev, newDrone, visitedCount, detectedCount, newIntruders, newElapsed) ==
    [areaObserved      |-> (visitedCount * 10000) \div (GRID_SIZE * GRID_SIZE),
     blindSpots        |-> ((GRID_SIZE * GRID_SIZE - visitedCount) * 10000)
                              \div (GRID_SIZE * GRID_SIZE),
     detectionLatency  |-> IF detectedCount > 0
                           THEN DivT(SumDetectedAt(newIntruders), detectedCount)
                           ELSE 0,
     battery           |-> newDrone.battery,
     intrudersDetected |-> detectedCount,
     totalIntruders    |-> Len(newIntruders),
     patrolEfficiency  |-> (visitedCount * 1000 * SECOND) \div Max(SECOND, newElapsed),
     avgResponseTime   |-> IF detectedCount > 0
                           THEN DivT(SumDetectedAt(newIntruders), detectedCount)
                           ELSE 0]

\* faulty metrics that keep the blind spots they find
MetricsKeepingBlindSpots(prev, newDrone, visitedCount, detectedCount, newIntruders, newElapsed) ==
    [areaObserved      |-> (visitedCount * 10000) \div (GRID_SIZE * GRID_SIZE),
     blindSpots        |-> prev.metrics.blindSpots,
     detectionLatency  |-> IF detectedCount > 0
                           THEN DivT(SumDetectedAt(newIntruders), detectedCount)
                           ELSE 0,
     battery           |-> newDrone.battery,
     intrudersDetected |-> detectedCount,
     totalIntruders    |-> Len(newIntruders),
     patrolEfficiency  |-> (visitedCount * 1000 * SECOND) \div Max(SECOND, newElapsed),
     avgResponseTime   |-> IF detectedCount > 0 THEN prev.metrics.detectionLatency
                           ELSE 0]

\* newMetrics (l.589-602); totalCells = GRID_SIZE * GRID_SIZE
Metrics(prev, newDrone, visitedCount, detectedCount, newIntruders, newElapsed) ==
    [areaObserved      |-> (visitedCount * 10000) \div (GRID_SIZE * GRID_SIZE),
     blindSpots        |-> ((GRID_SIZE * GRID_SIZE - visitedCount) * 10000)
                              \div (GRID_SIZE * GRID_SIZE),
     detectionLatency  |-> IF detectedCount > 0
                           THEN DivT(SumDetectedAt(newIntruders), detectedCount)
                           ELSE 0,
     battery           |-> newDrone.battery,
     intrudersDetected |-> detectedCount,
     totalIntruders    |-> Len(newIntruders),
     \* (visitedCount / max(1, newElapsed)) * 10, in 1/100
     patrolEfficiency  |-> (visitedCount * 1000 * SECOND) \div Max(SECOND, newElapsed),
     avgResponseTime   |-> IF detectedCount > 0 THEN prev.metrics.detectionLatency
                           ELSE 0]

\* faulty metrics that count the cells and the intruders of the state before
ComputeMetricsOfPrev(prev, newDrone, newGrid, newIntruders, newElapsed) ==
    Metrics(prev, newDrone, VisitedCount(prev.grid), DetectedCount(prev.intruders),
            newIntruders, newElapsed)

ComputeMetrics(prev, newDrone, newGrid, newIntruders, newElapsed) ==
    Metrics(prev, newDrone, VisitedCount(newGrid), DetectedCount(newIntruders),
            newIntruders, newElapsed)

\* the state returned by the movement branch (l.604-612)
MovedState(prev, newDrone, newGrid, newIntruders, newElapsed) ==
    [prev EXCEPT
       !.drone = newDrone,
       !.grid = newGrid,
       !.intruders = newIntruders,
       !.metrics = ComputeMetrics(prev, newDrone, newGrid, newIntruders, newElapsed),
       !.timeline = Slice(UnshiftDetections(prev.timeline, prev.intruders,
                                            newIntruders, 1, newElapsed),
                          TIMELINE_CAP),
       !.elapsedTime = newElapsed]

\* coverage and detection around the moved drone (l.530-568)
Sense(prev, newDrone, newElapsed) ==
    MovedState(prev, newDrone,
               UpdateCoverage(prev.grid, newDrone, newElapsed),
               DetectIntruders(prev.intruders, newDrone, newElapsed),
               newElapsed)

\* the movement branch of the updater (l.508-612)
MoveTick(prev, target, dt) ==
    Sense(prev, MoveDrone(prev.drone, target, dt), prev.elapsedTime + dt)

\* a faulty decision branch that keeps the reasons it finds after the new ones
DecidedMerging(prev, next) ==
    [state  |-> [prev EXCEPT !.decisionReasons =
                                Slice(next.reasons \o prev.decisionReasons, 3)],
     target |-> next.position]

\* a faulty decision branch that drains the battery
DecidedDraining(prev, next) ==
    [state  |-> [prev EXCEPT !.decisionReasons = next.reasons,
                             !.drone.battery = Max(0, prev.drone.battery - 1)],
     target |-> next.position]

\* the result of the decision branch for the decision next
Decided(prev, next) ==
    [state  |-> [prev EXCEPT !.decisionReasons = next.reasons],
     target |-> next.position]

\* the decision branch of the updater (l.487-506)
DecideTick(prev, rnd) ==
    Decided(prev, getNextPosition(prev.currentAlgorithm, prev.drone, prev.grid,
                                  prev.intruders, rnd))

\* a faulty guard that forgets the pause flag
TickKindIgnoringPause(prev, target) ==
    IF ~prev.isRunning THEN "noop"
    ELSE IF NeedsTarget(prev, target) THEN "decide" ELSE "move"

TickKind(prev, target) ==
    IF ~prev.isRunning \/ prev.isPaused THEN "noop"
    ELSE IF NeedsTarget(prev, target) THEN "decide" ELSE "move"

\* the updater of updateSimulation(deltaTime): the next state and the next
\* value of targetPositionRef.  deltaTime is in ms; dt = deltaTime * prev.speed.
updateSimulation(prev, target, deltaTime, rnd) ==
    CASE TickKind(prev, target) = "noop"   -> [state |-> prev, target |-> target]
      [] TickKind(prev, target) = "decide" -> DecideTick(prev, rnd)
      [] TickKind(prev, target) = "move"   ->
            [state |-> MoveTick(prev, target, deltaTime * prev.speed),
             target |-> target]

---------------------------------------------------------------------------
(* Inputs of the explored behaviours *)

\* wall-clock ms between two frames: one below and one above the clamp
Deltas == {40, 250}
\* speed multipliers in quarters: 4x, and out of the slider's range -50x and
\* 150000x
SpeedInputs == {16, -200, 600000}
AlgorithmInputs == Algorithms
EnvironmentInputs == {"dynamic-risk", "fog-of-war"}
HeatmapInputs == {"coverage"}
\* the range of the speed slider, in quarters: min={0.25} max={4}
MIN_SPEED == 1
MAX_SPEED == 16
\* the frame time explored with waiting updaters
QueuedDeltas == {40}

\* an event as useAlertSystem.handleDetection builds it, the n-th delivered
ExternalEvent(n) ==
    [id        |-> <<"cv-detection", n, 0>>,
     timestamp |-> n,
     type      |-> "alert",
     message   |-> <<"CV DETECTION">>,
     severity  |-> "danger"]

---------------------------------------------------------------------------
(* The hooks next to useSimulation on the dashboard, as constructed *)

\* the argument of useState and the refs of useAlertSystem
initialAlertState ==
    [isAlertActive |-> FALSE, lastAlertTime |-> Null, alertCount |-> 0,
     isMuted |-> FALSE]
initialAlertRefs == [lastAlertTimeRef |-> Null, alertTimeoutRef |-> Null]

\* the argument of useState and the refs of useCVDetection
initialCVState ==
    [isModelLoading |-> FALSE, isModelReady |-> FALSE, isDetecting |-> FALSE,
     isCameraActive |-> FALSE, detections |-> <<>>, lastDetectionTime |-> Null,
     error |-> Null]
initialCVRefs ==
    [modelRef |-> Null, videoRef |-> Null, animationRef |-> Null,
     detectionCallbackRef |-> Null]

\* Date.now() when the dashboard is mounted, ms
MOUNT_TIME == 10000

Mounted ==
    /\ alertState = initialAlertState
    /\ alertRefs = initialAlertRefs
    /\ now = MOUNT_TIME
    /\ cvState = initialCVState
    /\ cvRefs = initialCVRefs
    /\ detectCalls = <<>>

---------------------------------------------------------------------------
(* Actions: one per handler.  A handler's setState is applied at once, and *)
(* the effect of l.617-636 runs with it.                                   *)

\* the effect: when the run flags changed and the loop is (re)started,
\* lastTimeRef.current = performance.now()
AnimationEffect(prev, next, since) ==
    IF <<next.isRunning, next.isPaused>> # <<prev.isRunning, prev.isPaused>>
       /\ Running(next)
    THEN 0 ELSE since

\* a control action that changed nothing costs nothing
SpendOp(next, target) ==
    IF next = state /\ target = targetPositionRef THEN fuel
    ELSE [fuel EXCEPT !.ops = fuel.ops - 1]

\* what every control action does around its setState; mark is "keep", or
\* what lastTick records of a handler that clears the target
Control(next, target, mark) ==
    /\ fuel.ops > 0
    /\ state' = next
    /\ targetPositionRef' = target
    /\ sinceLastTime' = AnimationEffect(state, next, sinceLastTime)
    /\ lastTick' = IF mark = "keep" THEN lastTick ELSE mark
    /\ noopTick' = FALSE
    /\ fuel' = SpendOp(next, target)
    /\ UNCHANGED <<extSeq, pending, alertVars, cvVars>>

\* The updaters the handlers pass to setState, as functions of prev.
startUpdater(prev) == [prev EXCEPT !.isRunning = TRUE, !.isPaused = FALSE]

pauseUpdater(prev) == [prev EXCEPT !.isPaused = TRUE]

resumeUpdater(prev) == [prev EXCEPT !.isPaused = FALSE]

stopUpdater(prev) == [prev EXCEPT !.isRunning = FALSE, !.isPaused = FALSE]

resetUpdater(prev, d) ==
    [prev EXCEPT
       !.isRunning = FALSE,
       !.isPaused = FALSE,
       !.drone = initialDroneState,
       !.grid = createGrid(prev.currentEnvironment = "fog-of-war", d),
       !.intruders = generateIntruders(prev.currentEnvironment, d),
       !.obstacles = generateObstacles(prev.currentEnvironment, d),
       !.metrics = [initialMetrics EXCEPT !.totalIntruders =
                      Len(generateIntruders(prev.currentEnvironment, d))],
       !.decisionReasons = <<>>,
       !.timeline = <<>>,
       !.elapsedTime = 0]

algorithmUpdater(prev, algorithm) == [prev EXCEPT !.currentAlgorithm = algorithm]

startSimulation == Control(startUpdater(state), targetPositionRef, "keep")

pauseSimulation == Control(pauseUpdater(state), targetPositionRef, "keep")

resumeSimulation == Control(resumeUpdater(state), targetPositionRef, "keep")

stopSimulation == Control(stopUpdater(state), Null, "stopped")

resetSimulation(d) == Control(resetUpdater(state, d), Null, "reset")

setAlgorithm(algorithm) ==
    Control(algorithmUpdater(state, algorithm), Null, "algorithm")

EnvironmentEvent(environment) ==
    [id        |-> <<"env-change", 0, 0>>,
     timestamp |-> 0,
     type      |-> "environment",
     message   |-> <<"Environment changed to", environment>>,
     severity  |-> "info"]

\* a faulty updater that forgets to leave the run
environmentUpdaterKeepingRun(prev, environment, d) ==
    [prev EXCEPT
       !.currentEnvironment = environment,
       !.obstacles = generateObstacles(environment, d),
       !.intruders = generateIntruders(environment, d),
       !.grid = createGrid(environment = "fog-of-war", d),
       !.drone = initialDroneState,
       !.metrics = [initialMetrics EXCEPT
                      !.totalIntruders = Len(generateIntruders(environment, d))],
       !.timeline = <<EnvironmentEvent(environment)>>,
       !.elapsedTime = 0]

\* newObstacles, newIntruders and the grid are generated by the handler,
\* outside the updater, under draw d
environmentUpdater(prev, environment, d) ==
    [prev EXCEPT
       !.currentEnvironment = environment,
       !.obstacles = generateObstacles(environment, d),
       !.intruders = generateIntruders(environment, d),
       !.grid = createGrid(environment = "fog-of-war", d),
       !.drone = initialDroneState,
       !.metrics = [initialMetrics EXCEPT
                      !.totalIntruders = Len(generateIntruders(environment, d))],
       !.timeline = <<EnvironmentEvent(environment)>>,
       !.elapsedTime = 0,
       !.isRunning = FALSE,
       !.isPaused = FALSE]

heatmapUpdater(prev, heatmap) == [prev EXCEPT !.activeHeatmap = heatmap]

speedUpdater(prev, speed) == [prev EXCEPT !.speed = speed]

\* a faulty updater that overwrites the timeline it finds
timelineUpdaterReplacing(prev, event) ==
    [prev EXCEPT !.timeline = <<event>>]

timelineUpdater(prev, event) ==
    [prev EXCEPT !.timeline = Slice(<<event>> \o prev.timeline, TIMELINE_CAP)]

setEnvironment(environment, d) ==
    Control(environmentUpdater(state, environment, d), Null, "environment")

setHeatmap(heatmap) == Control(heatmapUpdater(state, heatmap), targetPositionRef, "keep")

setSpeed(speed) == Control(speedUpdater(state, speed), targetPositionRef, "keep")

addTimelineEvent ==
    /\ fuel.events > 0
    /\ state' = timelineUpdater(state, ExternalEvent(extSeq + 1))
    /\ extSeq' = extSeq + 1
    /\ noopTick' = FALSE
    /\ fuel' = [fuel EXCEPT !.events = fuel.events - 1]
    /\ UNCHANGED <<targetPositionRef, sinceLastTime, lastTick, pending, alertVars, cvVars>>

\* The frames that differ: delta is read by a movement tick only, rnd by a
\* decision of RPA or TFA only.
FrameDeltas ==
    IF TickKind(state, targetPositionRef) = "move" THEN Deltas ELSE {40}
FrameChoices ==
    IF TickKind(state, targetPositionRef) = "decide"
       /\ state.currentAlgorithm \in {"RPA", "TFA"}
    THEN Choices ELSE {1}

\* what a frame does with the result of its update
Frame(next, kind) ==
    /\ fuel.frames > 0
    /\ state' = next.state
    /\ targetPositionRef' = next.target
    /\ sinceLastTime' = 0
    /\ lastTick' = IF kind = "noop" THEN lastTick ELSE kind
    /\ noopTick' = (kind = "noop")
    /\ fuel' = [fuel EXCEPT !.frames = fuel.frames - 1]
    /\ UNCHANGED <<extSeq, pending, alertVars, cvVars>>

\* one animation frame, delta ms after the previous step: animate(time) with
\* time - lastTimeRef.current = sinceLastTime + delta.  A frame requested
\* while Running can still be delivered after a handler has left Running
\* (the effect's cleanup cancels it only with the next render), so a frame is
\* possible in every state and the guard of the updater decides.
animate(delta, rnd) ==
    Frame(updateSimulation(state, targetPositionRef,
                           Min(sinceLastTime + delta, MAX_DELTA_MS), rnd),
          TickKind(state, targetPositionRef))

\* wall-clock time passes while no frame is delivered
timePasses ==
    /\ ~Running(state)
    /\ sinceLastTime < IDLE_MS
    /\ sinceLastTime' = IDLE_MS
    /\ noopTick' = FALSE
    /\ UNCHANGED <<state, targetPositionRef, lastTick, extSeq, pending, fuel, alertVars, cvVars>>

Init ==
    /\ \E d \in Draws : state = InitialState(d)
    /\ targetPositionRef = Null
    /\ sinceLastTime = 0
    /\ lastTick = "none"
    /\ noopTick = FALSE
    /\ extSeq = 0
    /\ pending = <<>>
    /\ Mounted
    /\ fuel = [frames |-> MaxFrames, ops |-> MaxOps, events |-> MaxExternal]

Next ==
    \/ startSimulation
    \/ pauseSimulation
    \/ resumeSimulation
    \/ stopSimulation
    \/ \E d \in Draws : resetSimulation(d)
    \/ \E a \in AlgorithmInputs : setAlgorithm(a)
    \/ \E e \in EnvironmentInputs, d \in Draws : setEnvironment(e, d)
    \/ \E h \in HeatmapInputs : setHeatmap(h)
    \/ \E s \in SpeedInputs : setSpeed(s)
    \/ addTimelineEvent
    \/ \E delta \in FrameDeltas, rnd \in FrameChoices : animate(delta, rnd)
    \/ timePasses

Spec == Init /\ [][Next]_vars

\* The same program with many external events and few frames and control
\* actions: the behaviours in which the timeline fills up.
InitTimeline ==
    /\ state = InitialState(0)
    /\ targetPositionRef = Null
    /\ sinceLastTime = 0
    /\ lastTick = "none"
    /\ noopTick = FALSE
    /\ extSeq = 0
    /\ pending = <<>>
    /\ Mounted
    /\ fuel = [frames |-> TimelineFrames, ops |-> TimelineOps, events |-> MaxEvents]

SpecTimeline == InitTimeline /\ [][Next]_vars

---------------------------------------------------------------------------
(* The same handlers with React's update queue: setState(updater) appends  *)
(* the updater to pending, a handler's write of targetPositionRef happens  *)
(* at once, and a render applies the pending updaters in order.  The       *)
(* updater of updateSimulation reads and writes targetPositionRef when it  *)
(* is applied.                                                             *)

Update(kind, name, num, d) == [kind |-> kind, name |-> name, num |-> num, d |-> d]

\* the handlers that write targetPositionRef.current = null (l.653-679)
ClearsTarget == {"stop", "reset", "setAlgorithm", "setEnvironment"}

\* the setState calls of the handlers, with their arguments
HandlerUpdates ==
    { Update(k, "", 0, 0) : k \in {"start", "pause", "resume", "stop"} }
    \cup { Update("reset", "", 0, d) : d \in Draws }
    \cup { Update("setAlgorithm", a, 0, 0) : a \in AlgorithmInputs }
    \cup { Update("setEnvironment", e, 0, d) : e \in EnvironmentInputs, d \in Draws }
    \cup { Update("setHeatmap", h, 0, 0) : h \in HeatmapInputs }
    \cup { Update("setSpeed", "", sp, 0) : sp \in SpeedInputs }

\* what lastTick records of a handler that clears the target
Mark(kind) ==
    CASE kind = "stop"           -> "stopped"
      [] kind = "reset"          -> "reset"
      [] kind = "setAlgorithm"   -> "algorithm"
      [] kind = "setEnvironment" -> "environment"

\* the state an updater returns for prev
Updated(u, prev, target) ==
    CASE u.kind = "tick"           -> updateSimulation(prev, target, u.num, u.d).state
      [] u.kind = "start"          -> startUpdater(prev)
      [] u.kind = "pause"          -> pauseUpdater(prev)
      [] u.kind = "resume"         -> resumeUpdater(prev)
      [] u.kind = "stop"           -> stopUpdater(prev)
      [] u.kind = "reset"          -> resetUpdater(prev, u.d)
      [] u.kind = "setAlgorithm"   -> algorithmUpdater(prev, u.name)
      [] u.kind = "setEnvironment" -> environmentUpdater(prev, u.name, u.d)
      [] u.kind = "setHeatmap"     -> heatmapUpdater(prev, u.name)
      [] u.kind = "setSpeed"       -> speedUpdater(prev, u.num)
      [] u.kind = "event"          -> timelineUpdater(prev, ExternalEvent(u.num))

\* what applying one updater leaves: the state, targetPositionRef and the
\* history of ticks
Applied(u, acc) ==
    [state    |-> Updated(u, acc.state, acc.target),
     target   |-> IF u.kind = "tick"
                  THEN updateSimulation(acc.state, acc.target, u.num, u.d).target
                  ELSE acc.target,
     lastTick |-> IF u.kind = "tick"
                  THEN IF TickKind(acc.state, acc.target) = "noop" THEN acc.lastTick
                       ELSE TickKind(acc.state, acc.target)
                  ELSE IF u.kind \in ClearsTarget THEN Mark(u.kind)
                  ELSE acc.lastTick,
     noopTick |-> u.kind = "tick" /\ TickKind(acc.state, acc.target) = "noop"]

\* the render phase: the pending updaters applied oldest first
RECURSIVE ApplyAll(_, _)
ApplyAll(queue, acc) ==
    IF queue = <<>> THEN acc ELSE ApplyAll(Tail(queue), Applied(Head(queue), acc))

\* a handler is invoked: its setState is queued, its ref write is done
dispatch(u) ==
    /\ fuel.ops > 0
    /\ Len(pending) < MaxPending
    /\ pending' = Append(pending, u)
    /\ targetPositionRef' = IF u.kind \in ClearsTarget THEN Null ELSE targetPositionRef
    /\ fuel' = [fuel EXCEPT !.ops = fuel.ops - 1]
    /\ UNCHANGED <<state, sinceLastTime, lastTick, noopTick, extSeq, alertVars, cvVars>>

\* addTimelineEvent is invoked
dispatchEvent ==
    /\ fuel.events > 0
    /\ Len(pending) < MaxPending
    /\ pending' = Append(pending, Update("event", "", extSeq + 1, 0))
    /\ extSeq' = extSeq + 1
    /\ fuel' = [fuel EXCEPT !.events = fuel.events - 1]
    /\ UNCHANGED <<state, targetPositionRef, sinceLastTime, lastTick, noopTick, alertVars, cvVars>>

\* animate(time) is called: lastTimeRef is written at once, the updater of
\* updateSimulation(deltaTime) is queued
requestFrame(delta, rnd) ==
    /\ fuel.frames > 0
    /\ Len(pending) < MaxPending
    /\ pending' = Append(pending,
                         Update("tick", "", Min(sinceLastTime + delta, MAX_DELTA_MS), rnd))
    /\ sinceLastTime' = 0
    /\ fuel' = [fuel EXCEPT !.frames = fuel.frames - 1]
    /\ UNCHANGED <<state, targetPositionRef, lastTick, noopTick, extSeq, alertVars, cvVars>>

\* what a render leaves
Rendered(acc) ==
    /\ state' = acc.state
    /\ targetPositionRef' = acc.target
    /\ lastTick' = acc.lastTick
    /\ noopTick' = acc.noopTick
    /\ sinceLastTime' = AnimationEffect(state, acc.state, sinceLastTime)
    /\ pending' = <<>>
    /\ UNCHANGED <<extSeq, fuel, alertVars, cvVars>>

render ==
    /\ pending # <<>>
    /\ Rendered(ApplyAll(pending, [state |-> state, target |-> targetPositionRef,
                                   lastTick |-> lastTick, noopTick |-> FALSE]))

InitQueued ==
    /\ \E d \in Draws : state = InitialState(d)
    /\ targetPositionRef = Null
    /\ sinceLastTime = 0
    /\ lastTick = "none"
    /\ noopTick = FALSE
    /\ extSeq = 0
    /\ pending = <<>>
    /\ Mounted
    /\ fuel = [frames |-> QueuedFrames, ops |-> QueuedOps, events |-> MaxExternal]

NextQueued ==
    \/ \E u \in HandlerUpdates : dispatch(u)
    \/ dispatchEvent
    \/ \E delta \in QueuedDeltas, rnd \in Choices : requestFrame(delta, rnd)
    \/ render

SpecQueued == InitQueued /\ [][NextQueued]_vars

----------------------------------------------------------------------------
(* A patrol up to the edge of the field: setAlgorithm('ZPA'), setSpeed(3), *)
(* startSimulation() and n frames 0.1 s apart or more, then the handlers   *)
(* and frames of Spec.  At 3x the agent covers 0.6 per frame and decides   *)
(* again 0.2 short of each target, so the zigzag reaches z = -7.2 and asks *)
(* for z = -9.2.                                                           *)

PATROL_SPEED == 12

PatrolStart(d) ==
    startUpdater(speedUpdater(algorithmUpdater(InitialState(d), "ZPA"), PATROL_SPEED))

\* the updaters of n frames whose deltaTime is clamped to 0.1 s
PatrolQueue(n) == [i \in 1 .. n |-> Update("tick", "", MAX_DELTA_MS, 1)]

\* the coordinator after n frames of the patrol
Patrolled(d, n) ==
    ApplyAll(PatrolQueue(n), [state |-> PatrolStart(d), target |-> Null,
                              lastTick |-> "none", noopTick |-> FALSE])

PatrolledInit(acc) ==
    /\ state = acc.state
    /\ targetPositionRef = acc.target
    /\ lastTick = acc.lastTick
    /\ noopTick = FALSE
    /\ sinceLastTime = 0
    /\ extSeq = 0
    /\ pending = <<>>
    /\ Mounted
    /\ fuel = [frames |-> FieldFrames, ops |-> FieldOps, events |-> 0]

InitField == \E d \in Draws, n \in 0 .. PatrolFrames : PatrolledInit(Patrolled(d, n))

NextField ==
    \/ \E a \in AlgorithmInputs : setAlgorithm(a)
    \/ \E delta \in Deltas, rnd \in Choices : animate(delta, rnd)

SpecField == InitField /\ [][NextField]_vars

----------------------------------------------------------------------------
(* Decisions on arrival.  getNextPosition reads the agent's position and   *)
(* battery, the grid and the intruders.  The coordinator starts as the     *)
(* movement tick leaves it that brought the agent, heading along x, to a   *)
(* position of the field with some battery left: the cells in sight are    *)
(* marked, the intruders in sight detected, the metrics published, and the *)
(* target is reached, so the next tick decides.                            *)

\* (x, z) of the arrival, in 1/1000
DecisionPositions ==
    { <<0, 9000>>, <<0, -9000>>, <<2000, 8000>>, <<3000, -2000>>,
      <<0, 0>>, <<-7600, 4000>>, <<8000, -8500>>, <<0, -7500>> }

\* battery left on arrival: 60 %, 40 % and 20 %
DecisionBatteries == {24000000, 16000000, 8000000}

ArrivedDrone(pos, battery) ==
    [initialDroneState EXCEPT !.position = [x |-> pos[1], y |-> 2000, z |-> pos[2]],
                              !.battery = battery,
                              !.isMoving = TRUE]

\* the battery drains by dt on every movement tick, so FULL_BATTERY - battery
\* is the simulated time of the patrol
Arrived(d, algorithm, pos, battery) ==
    Sense(startUpdater(algorithmUpdater(InitialState(d), algorithm)),
          ArrivedDrone(pos, battery), FULL_BATTERY - battery)

InitDecision ==
    /\ \E d \in Draws, a \in Algorithms, pos \in DecisionPositions,
          b \in DecisionBatteries :
          /\ state = Arrived(d, a, pos, b)
          /\ targetPositionRef = [x |-> pos[1], y |-> 2000, z |-> pos[2]]
    /\ sinceLastTime = 0
    /\ lastTick = "move"
    /\ noopTick = FALSE
    /\ extSeq = 0
    /\ pending = <<>>
    /\ Mounted
    /\ fuel = [frames |-> DecisionFrames, ops |-> 0, events |-> 0]

NextDecision == \E delta \in Deltas, rnd \in Choices : animate(delta, rnd)

SpecDecision == InitDecision /\ [][NextDecision]_vars

----------------------------------------------------------------------------
(* The presets: every environment is selected, the world is reset, and the *)
(* simulation is started and runs.                                         *)

NextPresets ==
    \/ \E e \in Environments, d \in Draws : setEnvironment(e, d)
    \/ \E d \in Draws : resetSimulation(d)
    \/ startSimulation
    \/ \E delta \in FrameDeltas, rnd \in FrameChoices : animate(delta, rnd)

SpecPresets == Init /\ [][NextPresets]_vars

----------------------------------------------------------------------------
(* A run at any speed the control surface accepts: setSpeed(s),            *)
(* startSimulation() and n frames 0.1 s apart or more, then the handlers   *)
(* and frames of the patrol above.  At -50x every movement tick takes the  *)
(* agent 10 further from its target.                                       *)

SpeedRunStart(d, s) == startUpdater(speedUpdater(InitialState(d), s))

\* the coordinator after n frames of the run
SpeedRun(d, s, n) ==
    ApplyAll(PatrolQueue(n), [state |-> SpeedRunStart(d, s), target |-> Null,
                              lastTick |-> "none", noopTick |-> FALSE])

InitSpeedRun ==
    \E d \in Draws, s \in SpeedInputs, n \in 0 .. SpeedRunFrames :
       PatrolledInit(SpeedRun(d, s, n))

SpecSpeedRun == InitSpeedRun /\ [][NextField]_vars

----------------------------------------------------------------------------
(* The sector sweep on arrival.  The coordinator starts as movement ticks  *)
(* leave it that brought the agent, under CPA, to the positions of a tour  *)
(* one after the other and then to a last position: the cells in sight of  *)
(* each position are marked, and the last target is reached, so the next   *)
(* tick decides.  The tours leave sectors fully sampled, partly sampled or *)
(* untouched.                                                              *)

SweepTours ==
    { <<>>,
      << <<5000, 5000>> >>,
      << <<5000, 5000>>, <<-5000, 5000>>, <<5000, -5000>> >>,
      << <<5000, 5000>>, <<-5000, 5000>>, <<-5000, -5000>> >> }

SweepPositions ==
    { <<0, 0>>, <<-6000, -9000>>, <<-5500, -5500>>, <<5000, -5000>>,
      <<5000, -6000>>, <<4700, 4600>> }

\* the movement ticks that arrive at the stops in turn
RECURSIVE Toured(_, _, _)
Toured(prev, stops, battery) ==
    IF stops = <<>> THEN prev
    ELSE Toured(Sense(prev, ArrivedDrone(Head(stops), battery),
                      FULL_BATTERY - battery),
                Tail(stops), battery - SweepLeg)

InitSweep ==
    /\ \E d \in Draws, tour \in SweepTours, pos \in SweepPositions :
          /\ state = Toured(startUpdater(algorithmUpdater(InitialState(d), "CPA")),
                            Append(tour, pos), FULL_BATTERY - SweepLeg)
          /\ targetPositionRef = [x |-> pos[1], y |-> 2000, z |-> pos[2]]
    /\ sinceLastTime = 0
    /\ lastTick = "move"
    /\ noopTick = FALSE
    /\ extSeq = 0
    /\ pending = <<>>
    /\ Mounted
    /\ fuel = [frames |-> DecisionFrames, ops |-> 0, events |-> 0]

SpecSweep == InitSweep /\ [][NextDecision]_vars

----------------------------------------------------------------------------
(* The alert pipeline: useAlertSystem with the dashboard's callbacks.      *)
(* onTimelineEvent is addTimelineEvent of the simulation, onScreenshot     *)
(* returns null.  The sound and the toast leave no state.                  *)

\* the cooldown the dashboard passes, ms
cooldownMs == 3000

\* steps of Date.now() between two events: a millisecond, just short of the
\* cooldown, and the clock set back by a second
ClockSteps == {1, 2999, -1000}

\* a faulty test that also refuses the detection cooldownMs after the last
InCooldownInclusive(last, t) ==
    last # Null /\ last[1] # 0 /\ t - last[1] <= cooldownMs

\* lastAlertTimeRef.current && (now - lastAlertTimeRef.current) < cooldownMs
InCooldown(last, t) ==
    last # Null /\ last[1] # 0 /\ t - last[1] < cooldownMs

\* the updater of handleDetection and the one of triggerFlash
alertUpdater(prev, t) ==
    [prev EXCEPT !.lastAlertTime = <<t>>, !.alertCount = prev.alertCount + 1]
flashUpdater(prev) == [prev EXCEPT !.isAlertActive = TRUE]

\* a step of the alert system leaves the simulation's refs, the update
\* queue and the detection hook alone
AlertStep ==
    /\ noopTick' = FALSE
    /\ UNCHANGED <<targetPositionRef, sinceLastTime, lastTick, pending, cvVars>>

\* handleDetection(detection) at Date.now() = now.  triggerFlash clears the
\* timeout it finds and sets a new one.  The event's timestamp is kept in ms.
handleDetection ==
    /\ fuel.events > 0
    /\ fuel' = [fuel EXCEPT !.events = fuel.events - 1]
    /\ IF InCooldown(alertRefs.lastAlertTimeRef, now)
       THEN UNCHANGED <<alertState, alertRefs, state, extSeq>>
       ELSE /\ alertRefs' = [lastAlertTimeRef |-> <<now>>,
                             alertTimeoutRef |-> <<"pending">>]
            /\ alertState' = flashUpdater(alertUpdater(alertState, now))
            /\ state' = timelineUpdater(state, ExternalEvent(now))
            /\ extSeq' = extSeq + 1
    /\ UNCHANGED now
    /\ AlertStep

\* the timeout of triggerFlash fires, some time after it was set
flashTimeout ==
    /\ alertRefs.alertTimeoutRef = <<"pending">>
    /\ alertRefs' = [alertRefs EXCEPT !.alertTimeoutRef = <<"fired">>]
    /\ alertState' = [alertState EXCEPT !.isAlertActive = FALSE]
    /\ UNCHANGED <<state, extSeq, fuel, now>>
    /\ AlertStep

toggleMute ==
    /\ fuel.ops > 0
    /\ fuel' = [fuel EXCEPT !.ops = fuel.ops - 1]
    /\ alertState' = [alertState EXCEPT !.isMuted = ~alertState.isMuted]
    /\ UNCHANGED <<state, extSeq, alertRefs, now>>
    /\ AlertStep

resetAlerts ==
    /\ fuel.ops > 0
    /\ fuel' = [fuel EXCEPT !.ops = fuel.ops - 1]
    /\ alertState' = [alertState EXCEPT !.alertCount = 0, !.isAlertActive = FALSE]
    /\ UNCHANGED <<state, extSeq, alertRefs, now>>
    /\ AlertStep

\* Date.now() moves by step
clockMoves(step) ==
    /\ fuel.frames > 0
    /\ fuel' = [fuel EXCEPT !.frames = fuel.frames - 1]
    /\ now' = now + step
    /\ UNCHANGED <<state, extSeq, alertState, alertRefs>>
    /\ AlertStep

InitAlerts ==
    /\ \E d \in Draws : state = InitialState(d)
    /\ targetPositionRef = Null
    /\ sinceLastTime = 0
    /\ lastTick = "none"
    /\ noopTick = FALSE
    /\ extSeq = 0
    /\ pending = <<>>
    /\ Mounted
    /\ fuel = [frames |-> AlertClockSteps, ops |-> AlertOps, events |-> AlertDetections]

NextAlerts ==
    \/ handleDetection
    \/ flashTimeout
    \/ toggleMute
    \/ resetAlerts
    \/ \E step \in ClockSteps : clockMoves(step)

SpecAlerts == InitAlerts /\ [][NextAlerts]_vars

----------------------------------------------------------------------------
(* The webcam detection loop: useCVDetection once loadModel() and          *)
(* startCamera(video) have succeeded.  A call of detect() is a record of   *)
(* the state.isDetecting its closure holds, of where it is (awaiting       *)
(* model.detect, or requested as an animation frame) and of the handle of  *)
(* its frame.  extSeq counts the detections handed to the callback.        *)

DetectOutcomes == {"none", "person", "error"}

\* a step of the detection hook leaves the simulation and the alert system
\* alone
CVStep ==
    /\ noopTick' = FALSE
    /\ UNCHANGED <<state, targetPositionRef, sinceLastTime, lastTick, pending,
                   alertVars>>

\* detect() up to its first await: the call that goes on, if any (l.128)
detect(isDetecting) ==
    IF cvRefs.modelRef = Null \/ cvRefs.videoRef = Null \/ ~isDetecting
    THEN <<>>
    ELSE << [isDetecting |-> isDetecting, at |-> "await", handle |-> 0] >>

\* startDetection(onDetection), the callback of the last render: its closure
\* holds the state.isDetecting of that render, and so do its calls of
\* detect(), of which there are two (l.168, l.170)
startDetection ==
    /\ fuel.ops > 0
    /\ fuel' = [fuel EXCEPT !.ops = fuel.ops - 1]
    /\ IF cvRefs.modelRef = Null \/ cvRefs.videoRef = Null
       THEN UNCHANGED <<cvState, cvRefs, detectCalls>>
       ELSE /\ cvRefs' = [cvRefs EXCEPT !.detectionCallbackRef = <<"onDetection">>]
            /\ cvState' = [cvState EXCEPT !.isDetecting = TRUE]
            /\ detectCalls' = detectCalls \o detect(cvState.isDetecting)
                                          \o detect(cvState.isDetecting)
    /\ UNCHANGED extSeq
    /\ CVStep

\* seq without its i-th element
RemoveAt(seq, i) == SubSeq(seq, 1, i - 1) \o SubSeq(seq, i + 1, Len(seq))

\* the handle requestAnimationFrame returns: the number of the request
NextHandle == CVFrames - fuel.frames + 1

\* the detections of an outcome of model.detect, after the filter
Relevant(outcome) ==
    IF outcome = "person" THEN << [label |-> "person", timestamp |-> now] >> ELSE <<>>

\* model.detect settles for the i-th call and detect() runs to its end
\* (l.131-165): a rejection is caught and logged
modelSettles(i, outcome) ==
    /\ i \in DOMAIN detectCalls
    /\ detectCalls[i].at = "await"
    /\ fuel.frames > 0
    /\ IF outcome # "error" /\ (cvRefs.videoRef = Null \/ ~detectCalls[i].isDetecting)
       THEN /\ detectCalls' = RemoveAt(detectCalls, i)
            /\ UNCHANGED <<cvState, cvRefs, extSeq, fuel>>
       ELSE /\ cvState' =
                 IF outcome = "error" THEN cvState
                 ELSE IF Relevant(outcome) # <<>>
                 THEN [cvState EXCEPT !.detections = Relevant(outcome),
                                      !.lastDetectionTime = <<now>>]
                 ELSE [cvState EXCEPT !.detections = <<>>]
            /\ extSeq' = IF outcome # "error" /\ cvRefs.detectionCallbackRef # Null
                         THEN extSeq + Len(Relevant(outcome)) ELSE extSeq
            /\ cvRefs' = [cvRefs EXCEPT !.animationRef = <<NextHandle>>]
            /\ detectCalls' = [detectCalls EXCEPT ![i].at = "frame",
                                                  ![i].handle = NextHandle]
            /\ fuel' = [fuel EXCEPT !.frames = fuel.frames - 1]
    /\ CVStep

\* the browser runs the animation frame of the i-th call: detect() again
animationFrame(i) ==
    /\ i \in DOMAIN detectCalls
    /\ detectCalls[i].at = "frame"
    /\ detectCalls' = SubSeq(detectCalls, 1, i - 1)
                         \o detect(detectCalls[i].isDetecting)
                         \o SubSeq(detectCalls, i + 1, Len(detectCalls))
    /\ UNCHANGED <<cvState, cvRefs, extSeq, fuel>>
    /\ CVStep

\* the frame of handle h is cancelled
IsNotFrame(h, call) == ~(call.at = "frame" /\ <<call.handle>> = h)

stopDetection ==
    /\ fuel.ops > 0
    /\ fuel' = [fuel EXCEPT !.ops = fuel.ops - 1]
    /\ detectCalls' = SelectSeq(detectCalls, LAMBDA call : IsNotFrame(cvRefs.animationRef, call))
    /\ cvRefs' = [cvRefs EXCEPT !.animationRef = Null, !.detectionCallbackRef = Null]
    /\ cvState' = [cvState EXCEPT !.isDetecting = FALSE, !.detections = <<>>]
    /\ UNCHANGED extSeq
    /\ CVStep

\* stopCamera(); the stream's tracks are not modelled
stopCamera ==
    /\ fuel.ops > 0
    /\ fuel' = [fuel EXCEPT !.ops = fuel.ops - 1]
    /\ cvRefs' = [cvRefs EXCEPT !.videoRef = Null]
    /\ cvState' = [cvState EXCEPT !.isCameraActive = FALSE]
    /\ UNCHANGED <<detectCalls, extSeq>>
    /\ CVStep

InitCV ==
    /\ \E d \in Draws : state = InitialState(d)
    /\ targetPositionRef = Null
    /\ sinceLastTime = 0
    /\ lastTick = "none"
    /\ noopTick = FALSE
    /\ extSeq = 0
    /\ pending = <<>>
    /\ alertState = initialAlertState
    /\ alertRefs = initialAlertRefs
    /\ now = MOUNT_TIME
    /\ cvState = [initialCVState EXCEPT !.isModelReady = TRUE, !.isCameraActive = TRUE]
    /\ cvRefs = [initialCVRefs EXCEPT !.modelRef = <<"model">>, !.videoRef = <<"video">>]
    /\ detectCalls = <<>>
    /\ fuel = [frames |-> CVFrames, ops |-> CVOps, events |-> 0]

NextCV ==
    \/ startDetection
    \/ stopDetection
    \/ stopCamera
    \/ \E i \in DOMAIN detectCalls, outcome \in DetectOutcomes : modelSettles(i, outcome)
    \/ \E i \in DOMAIN detectCalls : animationFrame(i)

SpecCV == InitCV /\ [][NextCV]_vars

---------------------------------------------------------------------------
(* Properties *)

\* a step that is an animation frame, and one that is a control action
IsFrame == fuel'.frames < fuel.frames
IsTick == IsFrame /\ Running(state)

\* C1: in every reachable state the run flags encode Idle, Running or
\* Paused; isRunning = false together with isPaused = true is never reached,
\* so pause invoked while Idle leaves the coordinator Idle.
C1_RunFlagsEncodeThreeStates == ~(~state.isRunning /\ state.isPaused)

\* C2: a tick invoked while the coordinator is not Running (Idle or Paused)
\* is a no-op: the whole state and the current target are as before it.
C2_TickWhileNotRunningIsNoOp ==
    [][(IsFrame /\ ~Running(state))
          => (state' = state /\ targetPositionRef' = targetPositionRef)]_vars

\* a tick has just found the coordinator Paused in the middle of a patrol
C2_PausedTickHappened ==
    /\ noopTick
    /\ state.isRunning /\ state.isPaused
    /\ targetPositionRef # Null
    /\ state.elapsedTime > 0

\* C3: the Running tick that immediately follows a decision tick is a
\* movement tick toward the new target: the simulation never decides on two
\* consecutive Running ticks.
C3_MovementFollowsDecision ==
    [][(IsTick /\ lastTick = "decide") => lastTick' = "move"]_vars

\* the intruder is within the sensor radius of the drone
InSensorRange(intruder, drone) ==
    Hypot2(intruder.position.x - drone.position.x,
           intruder.position.z - drone.position.z) <= Sq(drone.fovRange)

\* C4: an undetected intruder becomes detected, with detectedAt the elapsed
\* time, on the first Running tick at which it is within the sensor radius
\* of the agent, and that tick puts a detection event at timeline index 0
\* (so with the agent at (0,2,0) and an intruder at (1,.,1) one Running tick
\* detects it).
C4_DetectedOnFirstTickInRange ==
    [][IsTick =>
         \A i \in DOMAIN state.intruders :
            (~state.intruders[i].detected
               /\ InSensorRange(state.intruders[i], state'.drone))
            => /\ state'.intruders[i].detected
               /\ state'.intruders[i].detectedAt = <<state'.elapsedTime>>
               /\ state'.timeline # <<>>
               /\ state'.timeline[1].type = "detection"
               /\ state'.timeline[1].timestamp = state'.elapsedTime]_vars

\* a step of resetSimulation or setEnvironment, which begin a new session
NewSession ==
    \/ \E d \in Draws : resetSimulation(d)
    \/ \E e \in EnvironmentInputs, d \in Draws : setEnvironment(e, d)

\* C5: within a session every intruder's detected flag changes only from
\* false to true, and detectedAt is written when it does and never again.
C5_DetectionIsIrreversible ==
    [][\/ /\ DOMAIN state'.intruders = DOMAIN state.intruders
          /\ \A i \in DOMAIN state.intruders :
               /\ state.intruders[i].detected
                     => /\ state'.intruders[i].detected
                        /\ state'.intruders[i].detectedAt
                              = state.intruders[i].detectedAt
               /\ state'.intruders[i].detected
                     <=> state'.intruders[i].detectedAt # Null
       \/ NewSession]_vars

\* an intruder detected at an earlier tick is still in range at a later one
C5_DetectedThenTickedAgain ==
    \E i \in DOMAIN state.intruders :
        /\ state.intruders[i].detected
        /\ state.intruders[i].detectedAt # <<state.elapsedTime>>
        /\ InSensorRange(state.intruders[i], state.drone)
        /\ lastTick = "move"

\* C6: within a session every cell's visited flag changes only from false to
\* true, across every tick and control action, stop followed by start
\* included.
C6_VisitedIsIrreversible ==
    [][\/ \A c \in DOMAIN state.grid.marked :
             state.grid.marked[c].visited => GridCell(state'.grid, c).visited
       \/ NewSession]_vars

\* cells are visited in a simulation that was stopped and started again
C6_VisitedAfterStopAndStart ==
    /\ lastTick = "stopped"
    /\ state.isRunning
    /\ VisitedCount(state.grid) > 0

\* C7: the battery lies in [0, 100] after every step, and no tick and no
\* control action other than reset and setEnvironment increases it.
C7_BatteryInRangeAndNonIncreasing ==
    [][/\ state'.drone.battery >= 0
       /\ state'.drone.battery <= FULL_BATTERY
       /\ (state'.drone.battery <= state.drone.battery \/ NewSession)]_vars

\* C8: on every Running tick the battery is decremented by 0.01 * dt,
\* floored at 0, dt being the clamped frame time times the speed, also on a
\* tick that decides a new target.
C8_BatteryDrainsOnEveryTick ==
    [][IsTick =>
         \E delta \in Deltas :
            state'.drone.battery =
               Max(0, state.drone.battery
                        - Min(sinceLastTime + delta, MAX_DELTA_MS) * state.speed)]_vars

\* C9: sensing runs on every Running tick: after it the cells of the sensor
\* window around the agent are visited, every intruder in range is detected
\* and the metrics count the visited cells and the detected intruders.
C9_SensingOnEveryTick ==
    [][IsTick =>
         /\ \A c \in FovCells(GridIndex(state'.drone.position.x),
                              GridIndex(state'.drone.position.z),
                              state'.drone.fovRange) :
               GridCell(state'.grid, c).visited
         /\ \A i \in DOMAIN state'.intruders :
               InSensorRange(state'.intruders[i], state'.drone)
                  => state'.intruders[i].detected
         /\ state'.metrics.intrudersDetected = DetectedCount(state'.intruders)
         /\ state'.metrics.areaObserved
               = (VisitedCount(state'.grid) * 10000) \div (GRID_SIZE * GRID_SIZE)]_vars

\* the step put k new events in front of the timeline, dropping from its
\* tail what exceeds the cap
Prepended(k) ==
    /\ Len(state'.timeline) = Min(TIMELINE_CAP, Len(state.timeline) + k)
    /\ \A j \in k + 1 .. Len(state'.timeline) :
          state'.timeline[j] = state.timeline[j - k]

\* the number of intruders the step detected
NewlyDetected ==
    Cardinality({ i \in DOMAIN state.intruders :
        ~state.intruders[i].detected /\ state'.intruders[i].detected })

\* C10: under any interleaving of ticks, external events and control
\* actions the timeline never holds more than 50 events, the event appended
\* last is at index 0, and what an append pushes beyond the cap is dropped
\* from the tail.
C10_TimelineCappedNewestFirst ==
    [][/\ Len(state'.timeline) <= TIMELINE_CAP
       /\ extSeq' # extSeq
             => Prepended(1) /\ state'.timeline[1] = ExternalEvent(extSeq')
       /\ (IsFrame /\ NewlyDetected = 0) => state'.timeline = state.timeline
       /\ (IsFrame /\ NewlyDetected > 0)
             => /\ Prepended(NewlyDetected)
                /\ state'.timeline[1].type = "detection"
                /\ state'.timeline[1].timestamp = state'.elapsedTime
       /\ (extSeq' = extSeq /\ ~IsFrame)
             => (state'.timeline = state.timeline \/ NewSession)]_vars

\* the timeline is full, an external event was appended to the full timeline
\* and then a tick put its detection event in front
C10_FullTimelineTookNewEvents ==
    /\ Len(state.timeline) = TIMELINE_CAP
    /\ extSeq > TIMELINE_CAP
    /\ state.timeline[1].type = "detection"
    /\ state.timeline[TIMELINE_CAP].type = "alert"

\* the run flags, and the fields of the state that are the world and the
\* selections
RunFlags == {"isRunning", "isPaused"}
Idle(st) == ~st.isRunning /\ ~st.isPaused

\* C11: stop invoked in any state yields Idle and leaves every other field
\* of the state unchanged, and it clears the current target: from stop until
\* the next Running tick there is no target, so the first Running tick after
\* a later start is a decision tick.
C11_StopYieldsIdleAndNoTarget ==
    /\ Idle(stopUpdater(state))
    /\ \A f \in DOMAIN state \ RunFlags : stopUpdater(state)[f] = state[f]
    /\ lastTick = "stopped" => targetPositionRef = Null

\* the fields of the state that select algorithm, environment, heatmap, speed
Selections == {"currentAlgorithm", "currentEnvironment", "activeHeatmap", "speed"}

\* r is a world freshly generated for environment env, in an Idle coordinator
FreshWorld(r, env) ==
    /\ Idle(r)
    /\ r.drone = initialDroneState
    /\ r.drone.battery = FULL_BATTERY
    /\ VisitedCount(r.grid) = 0
    /\ \A i \in DOMAIN r.intruders : ~r.intruders[i].detected
    /\ r.elapsedTime = 0
    /\ Len(r.intruders) = Len(generateIntruders(env, 0))
    /\ r.metrics = [initialMetrics EXCEPT !.totalIntruders = Len(r.intruders)]

\* two worlds of the same structure: obstacle count and types, intruder count
SameStructure(a, b) ==
    /\ Len(a.obstacles) = Len(b.obstacles)
    /\ \A i \in DOMAIN a.obstacles : a.obstacles[i].type = b.obstacles[i].type
    /\ Len(a.intruders) = Len(b.intruders)
    /\ a.metrics.totalIntruders = b.metrics.totalIntruders

\* r is what reset leaves of st, and a second reset leaves the same structure
ResetsTo(st, r) ==
    /\ FreshWorld(r, st.currentEnvironment)
    /\ r.timeline = <<>>
    /\ r.decisionReasons = <<>>
    /\ \A f \in Selections : r[f] = st[f]
    /\ \A e \in Draws : SameStructure(r, resetUpdater(r, e))

\* C12: reset invoked in any state yields Idle with a world regenerated for
\* the selected environment, empty timeline and reasons, the selections
\* unchanged and no current target (from reset until the next Running tick);
\* a second reset yields a world of the same structure.
C12_ResetRegeneratesWorld ==
    /\ lastTick = "reset" => targetPositionRef = Null
    /\ \A d \in Draws : ResetsTo(state, resetUpdater(state, d))

\* C13: selectAlgorithm(tag) changes only the selected algorithm, clears the
\* current target, and the next Running tick is a decision tick, which asks
\* the strategy of the selected tag.
C13_SelectAlgorithmForcesRedecision ==
    /\ lastTick = "algorithm" =>
          /\ targetPositionRef = Null
          /\ Running(state) => TickKind(state, targetPositionRef) = "decide"
    /\ \A a \in AlgorithmInputs :
          /\ algorithmUpdater(state, a).currentAlgorithm = a
          /\ \A f \in DOMAIN state \ {"currentAlgorithm"} :
                algorithmUpdater(state, a)[f] = state[f]

\* the cell is as a fresh grid of the preset has it: full uncertainty and
\* invisible exactly under fog-of-war, else uncertainty in [0, 0.5) and visible
FreshCell(cell, env) ==
    /\ ~cell.visited
    /\ env = "fog-of-war" => cell.uncertaintyValue = 1000 /\ ~cell.isVisible
    /\ env # "fog-of-war" =>
          cell.uncertaintyValue \in 0 .. 499 /\ cell.isVisible

\* r is the world selectEnvironment(env) leaves
EnvironmentWorld(r, env) ==
    /\ r.currentEnvironment = env
    /\ FreshWorld(r, env)
    /\ \E d \in Draws : r.obstacles = generateObstacles(env, d)
    /\ \E d \in Draws : r.intruders = generateIntruders(env, d)
    /\ \A c \in Cells : FreshCell(GridCell(r.grid, c), env)
    /\ Len(r.timeline) = 1
    /\ r.timeline[1].type = "environment"

\* C14: selectEnvironment(tag) invoked in any state yields Idle with
\* currentEnvironment = tag, the obstacles and intruders of the preset, a
\* fresh grid (full uncertainty and invisible exactly under fog-of-war), the
\* agent at its initial state, elapsedTime 0, initial metrics with
\* totalIntruders the number of intruders, and a timeline of exactly one
\* event, of category environment.
C14_SelectEnvironmentRegenerates ==
    [][lastTick' = "environment" =>
         \A e \in EnvironmentInputs, d \in Draws :
            setEnvironment(e, d) => EnvironmentWorld(state', e)]_vars

\* fog-of-war was selected during a run that had moved the agent
C14_EnvironmentSelectedMidRun ==
    /\ lastTick = "environment"
    /\ state.currentEnvironment = "fog-of-war"
    /\ fuel.frames <= MaxFrames - 2
    /\ Idle(state)

\* C15: setSpeed(m) with m outside [0.25, 4] is rejected, so the speed
\* multiplier is within [0.25, 4] in every reachable state.
C15_SpeedStaysInRange ==
    state.speed \in MIN_SPEED .. MAX_SPEED

\* what lastTick holds when the last updater that bears on the target was a
\* control action that clears it
ControlMarks == {"stopped", "reset", "algorithm", "environment"}

\* C16: ticks are atomic with respect to control actions: for any
\* interleaving of a waiting tick update with stop, reset, selectAlgorithm
\* or selectEnvironment, once every waiting update is applied the current
\* target is absent or was decided, after the control action, by the
\* selected algorithm on the current world.
C16_NoStaleTargetAfterControl ==
    (pending = <<>> /\ lastTick \in ControlMarks) => targetPositionRef = Null

IsTickUpdate(u) == u.kind = "tick"
IsEventUpdate(u) == u.kind = "event"

\* the events that the waiting addTimelineEvent updates carry
Carried(events) == { ExternalEvent(events[i].num) : i \in DOMAIN events }

\* seq without the members of removed
RECURSIVE Without(_, _)
Without(seq, removed) ==
    IF seq = <<>> THEN <<>>
    ELSE IF Head(seq) \in removed THEN Without(Tail(seq), removed)
    ELSE <<Head(seq)>> \o Without(Tail(seq), removed)

\* what the render leaves when ticks is what the waiting ticks alone leave and
\* events are the waiting addTimelineEvent updates
TicksAndEventsKept(ticks, events, last) ==
    /\ \A f \in DOMAIN state \ {"timeline"} : state'[f] = ticks.state[f]
    /\ targetPositionRef' = ticks.target
    /\ Len(ticks.state.timeline) + Len(events) <= TIMELINE_CAP =>
          /\ Without(state'.timeline, Carried(events)) = ticks.state.timeline
          /\ \A ev \in Carried(events) :
                \E k \in DOMAIN state'.timeline : state'.timeline[k] = ev
    /\ IsEventUpdate(last) => state'.timeline[1] = ExternalEvent(last.num)

\* C17: addTimelineEvent may be invoked in any state and interleaved with
\* ticks; it prepends the event and changes no field other than timeline,
\* and (up to the cap of 50) neither it nor an interleaved tick loses the
\* other's update: a render of waiting ticks and events leaves what the
\* ticks alone leave, with every event added to the timeline.
C17_EventsAndTicksKeepEachOther ==
    [][(/\ pending # <<>>
        /\ pending' = <<>>
        /\ \A i \in DOMAIN pending : pending[i].kind \in {"tick", "event"})
       => TicksAndEventsKept(
             ApplyAll(SelectSeq(pending, IsTickUpdate),
                      [state |-> state, target |-> targetPositionRef,
                       lastTick |-> lastTick, noopTick |-> FALSE]),
             SelectSeq(pending, IsEventUpdate),
             pending[Len(pending)])]_vars

\* an event was added while the update of a tick of a Running simulation
\* with a target was waiting
C17_EventAddedWhileTickWaits ==
    /\ Len(pending) = 2
    /\ pending[1].kind = "tick"
    /\ pending[2].kind = "event"
    /\ Running(state)
    /\ targetPositionRef # Null

\* the distance from position p to the target, in 1/1000
DistanceTo(p, target) == Hypot(target.x - p.x, target.z - p.z)

\* the step min(2 * dt, d) of a movement tick over simulated time dt
StepOf(dt, d) == Min(DivT(dt, 2), d)

\* the agent went from p to q, at distance d from the target, by step: it is
\* step away from p, d - step away from the target and no further from it
\* than before, up to the rounding of the 1/1000 grid
MovedToward(p, q, target, d, step) ==
    /\ Abs(Hypot(q.x - p.x, q.z - p.z) - step) <= 2
    /\ Abs(DistanceTo(q, target) - (d - step)) <= 2
    /\ DistanceTo(q, target) <= d

\* C18: on a movement tick with the agent at distance d from the target the
\* agent moves exactly min(2 * dt, d) toward the target, so the distance
\* after the tick is d - min(2 * dt, d); it never overshoots and never moves
\* away.
C18_MovesExactlyTowardTarget ==
    [][(IsTick /\ TickKind(state, targetPositionRef) = "move")
       => MovedToward(state.drone.position, state'.drone.position,
                      targetPositionRef,
                      DistanceTo(state.drone.position, targetPositionRef),
                      StepOf(state'.elapsedTime - state.elapsedTime,
                             DistanceTo(state.drone.position, targetPositionRef)))]_vars

InField(p) == p.x \in -FIELD .. FIELD /\ p.z \in -FIELD .. FIELD

\* C19: every target produced by any of the five strategies has x and z
\* within [-9, 9]: the stored target has, and so has the target each
\* strategy would produce in the present state for each random outcome.
C19_TargetsWithinField ==
    /\ targetPositionRef # Null => InField(targetPositionRef)
    /\ \A a \in Algorithms, rnd \in Choices :
          InField(getNextPosition(a, state.drone, state.grid,
                                  state.intruders, rnd).position)

\* a decision tick of the zigzag, 1.8 from the edge, stored a target on the
\* edge of the field
C19_TargetOnTheEdge ==
    /\ targetPositionRef # Null
    /\ lastTick = "decide"
    /\ state.currentAlgorithm = "ZPA"
    /\ Abs(state.drone.position.z) < FIELD - 1000
    /\ Abs(targetPositionRef.z) = FIELD

\* the simulated time a tick may add: nothing (a decision tick), or the
\* wall-clock time of one frame, at most 0.1 s, times the speed
TickAdvances(speed) ==
    {0} \cup { Min(delta, MAX_DELTA_MS) * speed : delta \in Deltas }

\* C20: the simulated time of a tick is min(wall-clock time since the
\* previous tick, 0.1 s) * speed, so elapsedTime never decreases while
\* Running, grows by at most 0.1 * speed per tick, and the wall-clock time
\* spent Paused or Idle is never added by the first tick after resume or
\* start.
C20_ElapsedTimeAdvancesByClampedDelta ==
    [][/\ (Running(state) /\ Running(state'))
             => state'.elapsedTime >= state.elapsedTime
       /\ IsTick =>
             state'.elapsedTime - state.elapsedTime \in TickAdvances(state.speed)]_vars

\* C21: in every reachable state (the initial state, after every tick, after
\* reset and selectEnvironment) metrics.areaObserved + metrics.blindSpots is
\* 100 (percentages in 1/100).
C21_ObservedPlusBlindIsWhole ==
    state.metrics.areaObserved + state.metrics.blindSpots = 100 * 100

\* a movement tick has published metrics with part of the area observed
C21_SomeAreaObserved ==
    /\ lastTick = "move"
    /\ state.metrics.areaObserved > 0
    /\ state.metrics.blindSpots > 0

\* a decision tick of ZPA with the agent at (0, z)
ZigzagDecidesAt(z) ==
    /\ IsTick
    /\ TickKind(state, targetPositionRef) = "decide"
    /\ state.currentAlgorithm = "ZPA"
    /\ state.drone.position.x = 0
    /\ state.drone.position.z = z

\* the decision stored the target (x, z) with this first reason, of weight 80
ZigzagDecided(x, z, text) ==
    /\ targetPositionRef'.x = x
    /\ targetPositionRef'.z = z
    /\ state'.decisionReasons[1].reason = text
    /\ state'.decisionReasons[1].weight = 80

\* C22 (as the code has it): x = 0 is in column 5, an odd column, where the
\* zigzag goes down (dir = -1).  A ZPA decision with the agent at x = 0,
\* z = 9 continues the zigzag: target x = 0, z = 7, first reason 'Continuing
\* zigzag pattern' (weight 80).  The row advance of that column is at the
\* other end: at x = 0, z = -9 the target is x = 2, z = -9 with first reason
\* 'Advancing to next row' (weight 80).
C22_ZigzagAtColumnFive ==
    [][/\ ZigzagDecidesAt(9000)
            => ZigzagDecided(0, 7000, "Continuing zigzag pattern")
       /\ ZigzagDecidesAt(-9000)
            => ZigzagDecided(2000, -9000, "Advancing to next row")]_vars

\* C22 as stated: a ZPA decision with the agent at x = 0, z = 9 advances x by
\* 2 (target x = 2), leaves z unchanged (target z = 9), with 'Advancing to
\* next row' (weight 80) as first reason.
C22_AsStated_RowAdvanceAtNine ==
    [][ZigzagDecidesAt(9000)
          => ZigzagDecided(2000, 9000, "Advancing to next row")]_vars

\* ZPA has just decided with the agent at x = 0, z = 9
C22_ZigzagDecidedAtNine ==
    /\ lastTick = "decide"
    /\ state.currentAlgorithm = "ZPA"
    /\ state.drone.position.x = 0
    /\ state.drone.position.z = 9000
    /\ targetPositionRef # Null

\* the candidates of a PDAP decision in st: the positions of the detected
\* intruders, of value 10, and the 25 lattice points of [-8, 8]^2 spaced by
\* 4, of value 0
UtilityCandidates(st) ==
    { [x |-> st.intruders[i].position.x, z |-> st.intruders[i].position.z,
       kind |-> "threat", value |-> 10] :
         i \in { k \in DOMAIN st.intruders : st.intruders[k].detected } }
    \cup { [x |-> sx, z |-> sz, kind |-> "sector", value |-> 0] :
             sx \in {-8000, -4000, 0, 4000, 8000},
             sz \in {-8000, -4000, 0, 4000, 8000} }

\* distance of the candidate from the agent, in 1/1000
UtilityDistance(c, st) ==
    Hypot(c.x - st.drone.position.x, c.z - st.drone.position.z)

\* maxRange = 20 if battery > 50 else 10
UtilityRange(st) == IF st.drone.battery * 2 > FULL_BATTERY THEN 20000 ELSE 10000

\* value + uncertaintyValue * 20 + (5 if the candidate's cell is unvisited)
\* - distance * moveCostWeight, with moveCostWeight = 0.05 if battery > 30
\* else 0.2; in 1/100000
UtilityScore(c, cell, st) ==
    c.value * 100000 + cell.uncertaintyValue * 2000
    + (IF cell.visited THEN 0 ELSE 500000)
    - UtilityDistance(c, st)
        * (IF st.drone.battery * 10 > FULL_BATTERY * 3 THEN 5 ELSE 20)

UtilityOf(c, st) ==
    UtilityScore(c, GridCell(st.grid, <<GridIndex(c.x), GridIndex(c.z)>>), st)

\* target is a candidate of cands with the maximum score, and text names its
\* kind
SelectsBest(cands, st, target, text) ==
    \E c \in cands :
       /\ target.x = c.x /\ target.z = c.z
       /\ \A other \in cands : UtilityOf(other, st) <= UtilityOf(c, st)
       /\ text = (IF c.kind = "threat" THEN "Engaging identified threat"
                  ELSE "Exploring high-value sector")

\* C23: a PDAP decision selects as target the candidate with the maximum
\* score among the candidates within maxRange of the agent (detected
\* intruders of value 10, the 25 lattice points of value 0; maxRange 20 if
\* battery > 50 else 10; score = value + uncertaintyValue * 20 + 5 if the
\* cell is unvisited - distance * moveCostWeight, moveCostWeight 0.05 if
\* battery > 30 else 0.2), and the first reason names threat or sector
\* according to the kind of the selected candidate.
C23_UtilityHunterSelectsBest ==
    [][(/\ IsTick
        /\ TickKind(state, targetPositionRef) = "decide"
        /\ state.currentAlgorithm = "PDAP")
       => SelectsBest({ c \in UtilityCandidates(state) :
                          UtilityDistance(c, state) <= UtilityRange(state) },
                      state, targetPositionRef',
                      state'.decisionReasons[1].reason)]_vars

\* PDAP has just decided, with less than half the battery and an intruder
\* detected, to engage the threat
C23_ThreatEngagedOnLowBattery ==
    /\ lastTick = "decide"
    /\ state.currentAlgorithm = "PDAP"
    /\ state.drone.battery * 2 <= FULL_BATTERY
    /\ state.metrics.intrudersDetected > 0
    /\ state.decisionReasons # <<>>
    /\ state.decisionReasons[1].reason = "Engaging identified threat"

\* the reasons each strategy gives
ReasonsOf(algorithm) ==
    CASE algorithm = "RPA"  -> {"Random direction selected"}
      [] algorithm = "ZPA"  -> {"Advancing to next row", "Continuing zigzag pattern",
                                "Systematic coverage"}
      [] algorithm = "CPA"  -> {"Transit to Sector", "Sweeping Sector",
                                "Sector Finishing", "Mission Complete - RTB"}
      [] algorithm = "TFA"  -> {"Intercepting target(s)", "Maintaing tactical standoff",
                                "Tracking & Monitoring", "Threat Centroid",
                                "Navigation Error - Hovering",
                                "Scanning for hostiles (Spiral)", "Sector clear"}
      [] algorithm = "PDAP" -> {"Engaging identified threat",
                                "Exploring high-value sector", "Utility Score",
                                "Returning to base", "Algorithm Error - Resetting"}

\* at most 3 reasons, each of weight within [0, 100]
ReasonsBounded(reasons) ==
    /\ Len(reasons) <= 3
    /\ \A i \in DOMAIN reasons : reasons[i].weight \in 0 .. 100

\* reasons are those of one decision of the algorithm: ranked 1, 2, ...
\* without a repeat, and all of the algorithm's
ReasonsOfOneDecision(reasons, algorithm) ==
    \A i \in DOMAIN reasons :
       /\ reasons[i].id = i
       /\ reasons[i].reason \in ReasonsOf(algorithm)

\* C24: decisionReasons always holds at most 3 entries, each with weight in
\* [0, 100], and every decision replaces the whole list with the reasons of
\* that decision only: reasons of an earlier decision or of an earlier
\* algorithm never survive a later decision.
C24_ReasonsReplacedByEachDecision ==
    [][/\ ReasonsBounded(state'.decisionReasons)
       /\ (IsTick /\ TickKind(state, targetPositionRef) = "decide")
             => ReasonsOfOneDecision(state'.decisionReasons,
                                     state.currentAlgorithm)]_vars

\* RPA has decided after another algorithm had left two reasons
C24_DecidedAfterAnotherAlgorithm ==
    /\ lastTick = "decide"
    /\ state.currentAlgorithm = "RPA"
    /\ fuel.frames <= MaxFrames - 2
    /\ fuel.ops <= MaxOps - 2
    /\ Len(state.decisionReasons) = 1
    /\ state.decisionReasons[1].reason = "Random direction selected"

\* the indices of the detected intruders
DetectedSet(intruders) == { i \in DOMAIN intruders : intruders[i].detected }

\* the sum of detectedAt over the intruders of the set
RECURSIVE TotalDetectedAt(_, _)
TotalDetectedAt(intruders, set) ==
    IF set = {} THEN 0
    ELSE LET i == CHOOSE k \in set : TRUE
         IN intruders[i].detectedAt[1] + TotalDetectedAt(intruders, set \ {i})

\* metrics publishes the mean of detectedAt over the detected intruders (up
\* to the rounding of the 1/4000 s grid) and the latency published before
\* as response time, or 0 and 0 if none is detected
LatencyPublished(metrics, intruders, detected, before) ==
    IF detected = {}
    THEN metrics.detectionLatency = 0 /\ metrics.avgResponseTime = 0
    ELSE /\ Abs(metrics.detectionLatency * Cardinality(detected)
                  - TotalDetectedAt(intruders, detected)) < Cardinality(detected)
         /\ metrics.avgResponseTime = before

\* C25: after every movement tick metrics.detectionLatency is the arithmetic
\* mean of detectedAt over the currently detected intruders (0 if none is
\* detected), and metrics.avgResponseTime is the detectionLatency that was
\* published before that tick if any intruder is detected after it, else 0.
C25_LatencyIsMeanOfDetectedAt ==
    [][(IsTick /\ TickKind(state, targetPositionRef) = "move")
       => LatencyPublished(state'.metrics, state'.intruders,
                           DetectedSet(state'.intruders),
                           state.metrics.detectionLatency)]_vars

\* a movement tick has published, with an intruder detected by an earlier
\* tick, the latency of before as response time
C25_ResponseTimePublished ==
    /\ lastTick = "move"
    /\ state.metrics.intrudersDetected > 0
    /\ state.metrics.detectionLatency > 0
    /\ state.metrics.avgResponseTime > 0

\* the number of obstacles of each preset
PresetObstacles(env) ==
    CASE env = "open-grid"     -> 0
      [] env = "urban-dense"   -> 15
      [] env = "maze-facility" -> 9
      [] env = "dynamic-risk"  -> 6
      [] env = "changing-env"  -> 10
      [] env = "fog-of-war"    -> 8

\* the number of intruders of each preset
PresetIntruders(env) == IF env = "dynamic-risk" THEN 8 ELSE 4

\* no tick has moved the agent since the world was generated
WorldIsNew == lastTick \in {"none", "reset", "environment"}

\* C26: for every environment preset the generators return a fixed
\* structure: 0 obstacles for open-grid, 15 for urban-dense, 9 for
\* maze-facility, exactly 6 (all static) for dynamic-risk, 10 for
\* changing-env and 8 for fog-of-war; exactly 8 intruders for dynamic-risk
\* and 4 for every other preset, all initially undetected.
C26_PresetsHaveFixedStructure ==
    /\ Len(state.obstacles) = PresetObstacles(state.currentEnvironment)
    /\ state.currentEnvironment = "dynamic-risk"
          => \A i \in DOMAIN state.obstacles : state.obstacles[i].type = "static"
    /\ Len(state.intruders) = PresetIntruders(state.currentEnvironment)
    /\ WorldIsNew => \A i \in DOMAIN state.intruders : ~state.intruders[i].detected

\* dynamic-risk was selected after another preset
C26_DynamicRiskSelected ==
    /\ lastTick = "environment"
    /\ state.currentEnvironment = "dynamic-risk"
    /\ fuel.ops = MaxOps - 2

\* C27: a decision tick changes only the current target and
\* decisionReasons: elapsedTime, the agent (position, heading, battery,
\* moving flag), the grid, the intruders, the metrics, the timeline and
\* every other field are exactly as before the tick.
C27_DecisionTickChangesOnlyTargetAndReasons ==
    [][(IsTick /\ TickKind(state, targetPositionRef) = "decide")
       => \A f \in DOMAIN state \ {"decisionReasons"} : state'[f] = state[f]]_vars

\* a decision tick has stored a target in the middle of a patrol
C27_DecidedMidPatrol ==
    /\ lastTick = "decide"
    /\ Running(state)
    /\ state.elapsedTime > 0
    /\ state.metrics.areaObserved > 0
    /\ targetPositionRef # Null

\* C28: in every reachable state the agent's position has x and z within
\* [-9, 9], so the agent's grid cell index is always inside [0, 20).
C28_AgentStaysInField ==
    /\ InField(state.drone.position)
    /\ InGrid(GridIndex(state.drone.position.x), GridIndex(state.drone.position.z))

\* cell c is at an offset (dx, dz) from cell (gx, gz) with |dx| <= 3,
\* |dz| <= 3 and sqrt(dx^2 + dz^2) <= radius (in 1/1000)
InSight(c, gx, gz, radius) ==
    /\ Abs(c[1] - gx) <= 3
    /\ Abs(c[2] - gz) <= 3
    /\ (Sq(c[1] - gx) + Sq(c[2] - gz)) * 1000000 <= Sq(radius)

\* after is before, seen at time t
SeenAt(before, after, t) ==
    /\ after.visited
    /\ after.lastVisited = t
    /\ after.coverageValue = 1
    /\ after.isVisible
    /\ after.uncertaintyValue = Max(0, before.uncertaintyValue - 100)
    /\ \A f \in DOMAIN before \ {"visited", "lastVisited", "coverageValue",
                                 "isVisible", "uncertaintyValue"} :
          after[f] = before[f]

\* the cells of the grid in sight of cell (gx, gz) are seen at t, the others
\* are as before
CoverageMarked(before, after, gx, gz, radius, t) ==
    \A c \in Cells :
       IF InSight(c, gx, gz, radius)
       THEN SeenAt(GridCell(before, c), GridCell(after, c), t)
       ELSE GridCell(after, c) = GridCell(before, c)

\* C29: a movement tick marks exactly the in-bounds cells at offset (dx, dz)
\* from the agent's post-move grid cell with |dx| <= 3, |dz| <= 3 and
\* sqrt(dx^2 + dz^2) <= sensor radius: each gets visited = true, lastVisited
\* = elapsed time, coverageValue = 1, isVisible = true and uncertaintyValue
\* lowered by 0.1 but never below 0; every other cell, including the cells
\* outside the window that lie within the sensor radius, is left unchanged.
C29_CoverageMarksWindowInRange ==
    [][(IsTick /\ TickKind(state, targetPositionRef) = "move")
       => CoverageMarked(state.grid, state'.grid,
                         GridIndex(state'.drone.position.x),
                         GridIndex(state'.drone.position.z),
                         state'.drone.fovRange, state'.elapsedTime)]_vars

\* a movement tick has marked the cells around an agent whose window reaches
\* beyond the grid
C29_MarkedAtTheEdge ==
    /\ lastTick = "move"
    /\ fuel.frames < DecisionFrames
    /\ state.drone.isMoving
    /\ GridIndex(state.drone.position.z) + WINDOW >= GRID_SIZE

\* the places of the timeline that hold a detection event of the intruder
EventsOf(timeline, intruder) ==
    { j \in DOMAIN timeline :
        /\ timeline[j].type = "detection"
        /\ timeline[j].id[2] = intruder.id }

\* danger, warning or info for threat level high, medium or low
SeverityOf(level) ==
    CASE level = "high"   -> "danger"
      [] level = "medium" -> "warning"
      [] level = "low"    -> "info"

\* the indices of the intruders the step detected
JustDetected ==
    { i \in DOMAIN state.intruders :
        ~state.intruders[i].detected /\ state'.intruders[i].detected }

\* the first k places of the timeline hold one event for each intruder of
\* the set, with its detectedAt as timestamp and the severity of its level,
\* and nothing else
OneEventEach(timeline, intruders, set, k) ==
    /\ k = Cardinality(set)
    /\ \A i \in set :
          \E j \in 1 .. k :
             /\ EventsOf(timeline, intruders[i]) \cap (1 .. k) = {j}
             /\ timeline[j].timestamp = intruders[i].detectedAt[1]
             /\ timeline[j].severity = SeverityOf(intruders[i].threatLevel)

\* every detected intruder has exactly one detection event in the timeline
\* and every other intruder none
OneEventPerDetected(timeline, intruders) ==
    \A i \in DOMAIN intruders :
       Cardinality(EventsOf(timeline, intruders[i]))
          = (IF intruders[i].detected THEN 1 ELSE 0)

\* C30: each intruder produces exactly one detection timeline event per
\* session, appended on the tick on which it becomes detected, with
\* timestamp equal to its detectedAt and severity danger, warning or info
\* for threat level high, medium or low; when several intruders become
\* detected on the same tick each gets its own event, and no detection
\* event is ever emitted for an intruder that was already detected.
C30_OneDetectionEventPerIntruder ==
    [][/\ IsTick =>
             /\ Len(state'.timeline) = Len(state.timeline) + Cardinality(JustDetected)
             /\ OneEventEach(state'.timeline, state'.intruders, JustDetected,
                             Len(state'.timeline) - Len(state.timeline))
       /\ OneEventPerDetected(state'.timeline, state'.intruders)]_vars

\* a movement tick has detected two intruders at once and put an event for
\* each in front of the timeline
C30_TwoDetectedOnOneTick ==
    /\ lastTick = "move"
    /\ Len(state.timeline) >= 2
    /\ state.timeline[1].type = "detection"
    /\ state.timeline[2].type = "detection"
    /\ state.timeline[1].timestamp = state.timeline[2].timestamp
    /\ state.timeline[1].id # state.timeline[2].id

\* the metrics a state publishes about its own world
MetricsOfWorld(st) ==
    /\ st.metrics.battery = st.drone.battery
    /\ st.metrics.intrudersDetected
          = Cardinality({ i \in DOMAIN st.intruders : st.intruders[i].detected })
    /\ st.metrics.totalIntruders = Len(st.intruders)
    /\ st.metrics.areaObserved * (GRID_SIZE * GRID_SIZE)
          = 100 * 100 * Cardinality({ c \in Cells : GridCell(st.grid, c).visited })

\* C31: the published metrics are consistent with the world in every
\* reachable state: metrics.battery equals the agent's battery,
\* metrics.intrudersDetected the number of detected intruders,
\* metrics.totalIntruders the number of intruders, and metrics.areaObserved
\* equals 100 x visited cells / 400.
C31_MetricsAgreeWithWorld ==
    MetricsOfWorld(state)

\* a movement tick has drained the battery, visited cells and detected an
\* intruder
C31_MovedAndDetected ==
    /\ lastTick = "move"
    /\ state.drone.battery < FULL_BATTERY
    /\ VisitedCount(state.grid) > 0
    /\ DetectedCount(state.intruders) > 0

\* a cell as the grid of an environment can hold it
CellConsistent(cell, environment) ==
    /\ cell.coverageValue \in {0, 1}
    /\ (cell.coverageValue = 1) <=> cell.visited
    /\ cell.visited => cell.isVisible
    /\ IF environment = "fog-of-war" THEN cell.isVisible <=> cell.visited
       ELSE cell.isVisible

\* C32: every grid cell is internally consistent in every reachable state:
\* coverageValue is 0 or 1 and equals 1 exactly when the cell is visited, a
\* visited cell is always visible, and while the selected environment is
\* fog-of-war a cell is visible exactly when it is visited (in every other
\* environment all cells are visible).
C32_CellsAreConsistent ==
    \A c \in Cells : CellConsistent(GridCell(state.grid, c), state.currentEnvironment)

\* under fog of war a movement tick has made some cells visible and left
\* others hidden
C32_FogLiftedAroundAgent ==
    /\ state.currentEnvironment = "fog-of-war"
    /\ lastTick = "move"
    /\ \E c \in Cells : GridCell(state.grid, c).isVisible
    /\ \E c \in Cells : ~GridCell(state.grid, c).isVisible

\* C33: decision data never refers to a previous world: after reset and
\* after selectEnvironment, decisionReasons is empty and there is no current
\* target, and both stay so until the next decision tick.
C33_NoDecisionDataOfPreviousWorld ==
    lastTick \in {"reset", "environment"}
       => /\ state.decisionReasons = <<>>
          /\ targetPositionRef = Null

\* the next tick is a PDAP decision
UtilityDecisionDue ==
    /\ Running(state)
    /\ state.currentAlgorithm = "PDAP"
    /\ NeedsTarget(state, targetPositionRef)

\* some candidate is within maxRange of the agent
CandidateWithinRange(st) ==
    \E c \in UtilityCandidates(st) :
       Hypot2(c.x - st.drone.position.x, c.z - st.drone.position.z)
          <= Sq(UtilityRange(st))

\* C34: in every reachable state a PDAP decision finds at least one
\* candidate within maxRange of the agent (for both battery regimes,
\* maxRange 20 and 10), so the fallback that targets the origin with the
\* weight-50 reason is never taken.
C34_UtilityHunterFindsCandidate ==
    /\ UtilityDecisionDue => CandidateWithinRange(state)
    /\ \A i \in DOMAIN state.decisionReasons :
          state.decisionReasons[i].reason # "Returning to base"

\* a step that delivers a detection to handleDetection
IsDetection == fuel'.events < fuel.events

\* a detection was accepted less than cooldownMs before t
AcceptedShortlyBefore(timeline, t) ==
    \E j \in DOMAIN timeline :
       timeline[j].type = "alert" /\ t - timeline[j].timestamp < cooldownMs

\* any two alert events of the timeline are at least cooldownMs apart
AlertsApart(timeline) ==
    \A i, j \in DOMAIN timeline :
       (i < j /\ timeline[i].type = "alert" /\ timeline[j].type = "alert")
          => Abs(timeline[i].timestamp - timeline[j].timestamp) >= cooldownMs

\* C35: the alert pipeline accepts a detection only if no detection was
\* accepted less than cooldownMs (3000 ms) earlier: a detection arriving
\* inside the cooldown changes nothing (alertCount unchanged, no timeline
\* event, no flash), an accepted detection increments alertCount by exactly
\* 1 and emits exactly one alert-category timeline event, so any two alert
\* events emitted by handleDetection are at least cooldownMs apart, for any
\* arrival schedule of detections.
C35_CooldownGatesAlerts ==
    [][IsDetection =>
         /\ IF AcceptedShortlyBefore(state.timeline, now)
            THEN UNCHANGED <<alertState, alertRefs, state>>
            ELSE /\ alertState'.alertCount = alertState.alertCount + 1
                 /\ alertState'.isAlertActive
                 /\ state'.timeline = <<state'.timeline[1]>> \o state.timeline
                 /\ state'.timeline[1].type = "alert"
                 /\ state'.timeline[1].timestamp = now
         /\ AlertsApart(state'.timeline)]_vars

\* of four detections two were accepted, exactly cooldownMs apart, and two
\* refused
C35_AcceptedAgainAfterCooldown ==
    /\ fuel.events = 0
    /\ Len(state.timeline) = 2
    /\ state.timeline[1].timestamp - state.timeline[2].timestamp = cooldownMs

\* the calls of detect() that are requested as animation frames
FramesRequested(calls) == { i \in DOMAIN calls : calls[i].at = "frame" }

\* C36: after stopDetection returns, the webcam detection loop is stopped
\* for good: no detection callback is invoked, the detections list stays
\* empty and no further detection frame is scheduled until the next
\* startDetection, even when a detect() call was awaiting the model's result
\* at the moment stopDetection ran.
C36_StopEndsDetectionLoop ==
    [][(~cvState.isDetecting /\ ~cvState'.isDetecting) =>
         /\ extSeq' = extSeq
         /\ cvState'.detections = <<>>
         /\ cvRefs'.animationRef = Null
         /\ Cardinality(FramesRequested(detectCalls'))
               <= Cardinality(FramesRequested(detectCalls))]_vars

\* a decision tick of ZPA
ZigzagDecides ==
    /\ IsTick
    /\ TickKind(state, targetPositionRef) = "decide"
    /\ state.currentAlgorithm = "ZPA"

\* dir for the agent at x: +1 if floor((x + 10) / 2) is even, else -1
ZigzagDir(x) == IF ((x + 10000) \div 2000) % 2 = 0 THEN 1 ELSE -1

\* x + 2, or -9 if that is beyond 9
NextRow(x) == IF x + 2000 > 9000 THEN -9000 ELSE x + 2000

\* the decision stored the target (x, z), this first reason of weight 80 and
\* 'Systematic coverage' of weight 60 as the second and last
ZigzagStored(x, z, text) ==
    /\ ZigzagDecided(x, z, text)
    /\ Len(state'.decisionReasons) = 2
    /\ state'.decisionReasons[2].reason = "Systematic coverage"
    /\ state'.decisionReasons[2].weight = 60

\* the rule of the zigzag for the agent at p, with the z of the target
\* passed through within
ZigzagRule(p, within(_)) ==
    IF p.z * ZigzagDir(p.x) >= 8000
    THEN ZigzagStored(NextRow(p.x), p.z, "Advancing to next row")
    ELSE ZigzagStored(p.x, within(p.z + 2000 * ZigzagDir(p.x)),
                      "Continuing zigzag pattern")

\* z within [-9, 9]
WithinField(z) == IF z > 9000 THEN 9000 ELSE IF z < -9000 THEN -9000 ELSE z

\* z as it is
AsItIs(z) == z

\* C37 (as the code has it): a ZPA decision with col = floor((x+10)/2) and
\* dir = +1 if col is even else -1 targets (x+2, z) with the row-advance
\* reason when z*dir >= 8 and (x, z + 2*dir) with the zigzag reason
\* otherwise; a resulting x > 9 wraps to x = -9 (instead of being clamped to
\* 9), a resulting z beyond [-9, 9] is clamped to -9 or 9, and a second
\* reason 'Systematic coverage' with weight 60 is always appended.
C37_ZigzagRuleWithClampedZ ==
    [][ZigzagDecides => ZigzagRule(state.drone.position, WithinField)]_vars

\* C37 as stated: the target of the zigzag branch is (x, z + 2*dir).
C37_AsStated_ZigzagRule ==
    [][ZigzagDecides => ZigzagRule(state.drone.position, AsItIs)]_vars

\* ZPA has just decided at the end of the last column and wrapped to x = -9
C37_WrappedToFirstColumn ==
    /\ lastTick = "decide"
    /\ state.currentAlgorithm = "ZPA"
    /\ state.drone.position.x = 8000
    /\ targetPositionRef # Null
    /\ targetPositionRef.x = -9000
    /\ state.decisionReasons[1].reason = "Advancing to next row"

\* CPA decides on this tick
SectorDecides ==
    /\ IsTick
    /\ TickKind(state, targetPositionRef) = "decide"
    /\ state.currentAlgorithm = "CPA"

\* the centres of the sectors 1 (NE), 2 (NW), 3 (SW) and 4 (SE)
SectorCentres ==
    << <<5000, 5000>>, <<-5000, 5000>>, <<-5000, -5000>>, <<5000, -5000>> >>

Unvisited(c) == ~GridCell(state.grid, c).visited

\* the world position of a cell
CellAt(c) == <<(c[1] - 10) * 1000, (c[2] - 10) * 1000>>

\* the 9 cells sampled around the centre of sector i, 2 apart
Sampled(i) ==
    { c \in Cells : /\ CellAt(c)[1] - SectorCentres[i][1] \in {-2000, 0, 2000}
                    /\ CellAt(c)[2] - SectorCentres[i][2] \in {-2000, 0, 2000} }

UnvisitedSampled(i) == Cardinality({ c \in Sampled(i) : Unvisited(c) })

\* sector i scores highest, and higher than the sectors before it
TakenSector(i) ==
    /\ \A j \in 1 .. 4 : UnvisitedSampled(j) <= UnvisitedSampled(i)
    /\ \A j \in 1 .. i - 1 : UnvisitedSampled(j) < UnvisitedSampled(i)

\* the unvisited cells less than 8 from the centre of sector i on both axes
SweepWindow(i) ==
    { c \in Cells : /\ Unvisited(c)
                    /\ Abs(CellAt(c)[1] - SectorCentres[i][1]) < 8000
                    /\ Abs(CellAt(c)[2] - SectorCentres[i][2]) < 8000 }

\* the squared distance of the agent from the world position w
AgentDist2(w) ==
    Sq(w[1] - state.drone.position.x) + Sq(w[2] - state.drone.position.z)

\* the decision stored the target (x, z) and this reason as the only one
SectorStored(x, z, text, weight, detail) ==
    /\ targetPositionRef'.x = x
    /\ targetPositionRef'.z = z
    /\ Len(state'.decisionReasons) = 1
    /\ state'.decisionReasons[1].reason = text
    /\ state'.decisionReasons[1].weight = weight
    /\ state'.decisionReasons[1].detail = detail

\* the rule of the sweep for the taken sector i, with the coordinates of a
\* targeted cell passed through within
SectorRule(i, within(_)) ==
    IF UnvisitedSampled(i) = 0
    THEN SectorStored(0, 0, "Mission Complete - RTB", 100, <<>>)
    ELSE IF AgentDist2(SectorCentres[i]) > Sq(5000)
    THEN SectorStored(SectorCentres[i][1], SectorCentres[i][2],
                      "Transit to Sector", 100, <<i>>)
    ELSE IF SweepWindow(i) = {}
    THEN SectorStored(SectorCentres[i][1], SectorCentres[i][2],
                      "Sector Finishing", 60, <<>>)
    ELSE \E c \in SweepWindow(i) :
            /\ \A o \in SweepWindow(i) : AgentDist2(CellAt(c)) <= AgentDist2(CellAt(o))
            /\ SectorStored(within(CellAt(c)[1]), within(CellAt(c)[2]),
                            "Sweeping Sector", 90, <<i>>)

=============================================================================
